---- MODULE Spec2Model ----
(***************************************************************************)
(* Targeting, registry and concurrent dispatch of the Fusion toolset:      *)
(*   internal/fusion/targeting/target.go   Target, resolution, Result      *)
(*   internal/fusion/clients/...           Registry                        *)
(*   internal/fusion/services/common.go    ExecuteOnClusters               *)
(* Names, selectors and error messages are strings; a Go slice is a tuple, *)
(* a Go map is a function, a nil error is the value NoErr.                 *)
(***************************************************************************)
EXTENDS Integers, Sequences, FiniteSets, TLC

(***************************************************************************)
(* Bounds of the model.                                                    *)
(***************************************************************************)
MaxAvail == 2       \* longest list of available names handed to a resolver
MaxClusters == 2    \* longest Clusters list of a multi target
MaxCalls == 2       \* resolver calls made on one Target value

NoErr == "<nil>"

(***************************************************************************)
(* The functions of Go's strings package the resolver uses.                *)
(***************************************************************************)
Char(s, i) == SubSeq(s, i, i)

HasPrefix(s, prefix) ==
    /\ Len(s) >= Len(prefix)
    /\ SubSeq(s, 1, Len(prefix)) = prefix

Contains(s, substr) ==
    \E i \in 0..(Len(s) - Len(substr)) : SubSeq(s, i + 1, i + Len(substr)) = substr

LowerOf(c) ==
    CASE c = "A" -> "a" [] c = "B" -> "b" [] c = "D" -> "d" [] c = "E" -> "e"
      [] c = "N" -> "n" [] c = "O" -> "o" [] c = "P" -> "p" [] c = "R" -> "r"
      [] c = "V" -> "v" [] c = "X" -> "x" [] c = "Y" -> "y"
      [] OTHER -> c

RECURSIVE ToLower(_)
ToLower(s) ==
    IF Len(s) = 0 THEN "" ELSE LowerOf(Char(s, 1)) \o ToLower(SubSeq(s, 2, Len(s)))

IsSpace(c) == c = " "

RECURSIVE TrimLeft(_)
TrimLeft(s) ==
    IF Len(s) > 0 /\ IsSpace(Char(s, 1)) THEN TrimLeft(SubSeq(s, 2, Len(s))) ELSE s

RECURSIVE TrimRight(_)
TrimRight(s) ==
    IF Len(s) > 0 /\ IsSpace(Char(s, Len(s))) THEN TrimRight(SubSeq(s, 1, Len(s) - 1)) ELSE s

\* mutant of TrimSpace: trailing white space is kept
TrimSpaceLeading(s) == TrimLeft(s)

TrimSpace(s) == TrimRight(TrimLeft(s))

\* position of the first occurrence of the one-character separator, 0 if none
Index(s, sep) ==
    IF \E i \in 1..Len(s) : Char(s, i) = sep
    THEN CHOOSE i \in 1..Len(s) :
            Char(s, i) = sep /\ \A j \in 1..(i - 1) : Char(s, j) # sep
    ELSE 0

RECURSIVE Split(_, _)
Split(s, sep) ==
    LET i == Index(s, sep)
    IN  IF i = 0 THEN <<s>>
        ELSE <<SubSeq(s, 1, i - 1)>> \o Split(SubSeq(s, i + 1, Len(s)), sep)

\* strings.SplitN(s, sep, 2)
SplitN2(s, sep) ==
    LET i == Index(s, sep)
    IN  IF i = 0 THEN <<s>> ELSE <<SubSeq(s, 1, i - 1), SubSeq(s, i + 1, Len(s))>>

(***************************************************************************)
(* targeting.Target and its resolution (target.go).                        *)
(***************************************************************************)
TargetSingle == "single"
TargetMulti == "multi"
TargetFleet == "fleet"
TargetSelector == "selector"
TargetAll == "all"

MakeTarget(ty, cluster, clusters, fleet, selector, timeout) ==
    [Type |-> ty, Cluster |-> cluster, Clusters |-> clusters, Fleet |-> fleet,
     Selector |-> selector, Timeout |-> timeout]

\* a nil *Target
NilTarget == MakeTarget("<nil>", "", <<>>, "", "", 0)

\* mutant of Validate: a fleet target is not asked for its Fleet
ValidateFleetUnchecked(t) ==
    CASE t = NilTarget -> [err |-> "target cannot be nil", t |-> t]
      [] t.Type = TargetSingle ->
            IF t.Cluster = ""
            THEN [err |-> "cluster name required for single target", t |-> t]
            ELSE [err |-> NoErr, t |-> t]
      [] t.Type = TargetMulti ->
            IF Len(t.Clusters) = 0
            THEN [err |-> "at least one cluster required for multi target", t |-> t]
            ELSE [err |-> NoErr, t |-> t]
      [] t.Type = TargetFleet -> [err |-> NoErr, t |-> t]
      [] t.Type = TargetSelector ->
            IF t.Selector = ""
            THEN [err |-> "selector required for selector target", t |-> t]
            ELSE [err |-> NoErr, t |-> t]
      [] t.Type = TargetAll -> [err |-> NoErr, t |-> t]
      [] t.Type = "" -> [err |-> NoErr, t |-> [t EXCEPT !.Type = TargetSingle]]
      [] OTHER -> [err |-> "invalid target type: " \o t.Type, t |-> t]

\* Validate has a pointer receiver: it returns the error and the target as it
\* leaves it (an empty Type is overwritten with "single").
Validate(t) ==
    CASE t = NilTarget -> [err |-> "target cannot be nil", t |-> t]
      [] t.Type = TargetSingle ->
            IF t.Cluster = ""
            THEN [err |-> "cluster name required for single target", t |-> t]
            ELSE [err |-> NoErr, t |-> t]
      [] t.Type = TargetMulti ->
            IF Len(t.Clusters) = 0
            THEN [err |-> "at least one cluster required for multi target", t |-> t]
            ELSE [err |-> NoErr, t |-> t]
      [] t.Type = TargetFleet ->
            IF t.Fleet = ""
            THEN [err |-> "fleet name required for fleet target", t |-> t]
            ELSE [err |-> NoErr, t |-> t]
      [] t.Type = TargetSelector ->
            IF t.Selector = ""
            THEN [err |-> "selector required for selector target", t |-> t]
            ELSE [err |-> NoErr, t |-> t]
      [] t.Type = TargetAll -> [err |-> NoErr, t |-> t]
      [] t.Type = "" -> [err |-> NoErr, t |-> [t EXCEPT !.Type = TargetSingle]]
      [] OTHER -> [err |-> "invalid target type: " \o t.Type, t |-> t]

\* selectors[key] = value, a later pair overwriting an earlier one with its key
RECURSIVE parsePairs(_, _)
parsePairs(pairs, selectors) ==
    IF Len(pairs) = 0 THEN selectors
    ELSE LET kv == SplitN2(TrimSpace(Head(pairs)), "=")
         IN  IF Len(kv) = 2
             THEN LET key == TrimSpace(kv[1])
                      value == TrimSpace(kv[2])
                  IN  parsePairs(Tail(pairs),
                                 [k \in DOMAIN selectors \cup {key} |->
                                     IF k = key THEN value ELSE selectors[k]])
             ELSE parsePairs(Tail(pairs), selectors)

parseSelector(selector) == parsePairs(Split(selector, ","), <<>>)

matchesSelector(clusterName, selectors) ==
    \A key \in DOMAIN selectors :
        /\ ~(key = "name" /\ ~Contains(clusterName, selectors[key]))
        /\ ~(key = "env" /\ ~Contains(ToLower(clusterName), ToLower(selectors[key])))

\* mutant of fleetMatch: the prefix without its "-"
fleetMatchBarePrefix(cluster, fleet) ==
    HasPrefix(cluster, fleet) \/ cluster = fleet

fleetMatch(cluster, fleet) ==
    HasPrefix(cluster, fleet \o "-") \/ cluster = fleet

\* the append loops of the fleet and selector cases
RECURSIVE fleetLoop(_, _)
fleetLoop(availableClusters, fleet) ==
    IF Len(availableClusters) = 0 THEN <<>>
    ELSE (IF fleetMatch(Head(availableClusters), fleet)
          THEN <<Head(availableClusters)>> ELSE <<>>)
         \o fleetLoop(Tail(availableClusters), fleet)

RECURSIVE selectorLoop(_, _)
selectorLoop(availableClusters, selectors) ==
    IF Len(availableClusters) = 0 THEN <<>>
    ELSE (IF matchesSelector(Head(availableClusters), selectors)
          THEN <<Head(availableClusters)>> ELSE <<>>)
         \o selectorLoop(Tail(availableClusters), selectors)

multiNames(t) == t.Clusters

\* GetClusterNames: the names, the error and the target as Validate left it
GetClusterNames(t0, availableClusters) ==
    LET v == Validate(t0)
        t == v.t
    IN  IF v.err # NoErr THEN [names |-> <<>>, err |-> v.err, t |-> t]
        ELSE CASE t.Type = TargetSingle ->
                    [names |-> <<t.Cluster>>, err |-> NoErr, t |-> t]
               [] t.Type = TargetMulti ->
                    [names |-> multiNames(t), err |-> NoErr, t |-> t]
               [] t.Type = TargetAll ->
                    [names |-> availableClusters, err |-> NoErr, t |-> t]
               [] t.Type = TargetFleet ->
                    LET fleetClusters == fleetLoop(availableClusters, t.Fleet)
                    IN  IF Len(fleetClusters) = 0
                        THEN [names |-> <<>>,
                              err |-> "no clusters found for fleet: " \o t.Fleet, t |-> t]
                        ELSE [names |-> fleetClusters, err |-> NoErr, t |-> t]
               [] t.Type = TargetSelector ->
                    LET selectedClusters ==
                            selectorLoop(availableClusters, parseSelector(t.Selector))
                    IN  IF Len(selectedClusters) = 0
                        THEN [names |-> <<>>,
                              err |-> "no clusters match selector: " \o t.Selector, t |-> t]
                        ELSE [names |-> selectedClusters, err |-> NoErr, t |-> t]
               [] OTHER ->
                    [names |-> <<>>, err |-> "unsupported target type: " \o t.Type, t |-> t]

\* mutant of resolveMultiNames: the placeholder of the other kinds
resolveMultiPlaceholder(t) == <<"default">>

resolveMultiNames(t) == t.Clusters

\* ResolveClusterNames never reads its registry argument
ResolveClusterNames(t0) ==
    LET v == Validate(t0)
        t == v.t
    IN  IF v.err # NoErr THEN [names |-> <<>>, err |-> v.err, t |-> t]
        ELSE CASE t.Type = TargetSingle ->
                    IF t.Cluster = ""
                    THEN [names |-> <<"default">>, err |-> NoErr, t |-> t]
                    ELSE [names |-> <<t.Cluster>>, err |-> NoErr, t |-> t]
               [] t.Type = TargetMulti ->
                    [names |-> resolveMultiNames(t), err |-> NoErr, t |-> t]
               [] OTHER ->
                    [names |-> <<"default">>, err |-> NoErr, t |-> t]

(***************************************************************************)
(* State.                                                                  *)
(***************************************************************************)
VARIABLES
    rt,            \* resolver harness: the Target value the resolvers are called on
    avail,         \* resolver harness: the availableClusters argument
    hist,          \* resolver harness: the calls made so far, with what they returned
    clients,       \* Registry.clients: the map from names to *ClusterClient
    defaultTimeout,\* Registry.timeout, in seconds
    last,          \* registry harness: the last call that affected each name
    lastCall,      \* registry harness: the last call, the map before it, what it returned
    returned,      \* registry harness: the map a GetAllClients call returned
    mu,            \* Registry.mu: the goroutines holding it, writing and reading
    at,            \* lock harness: the Registry call each goroutine is in, and where
    env,           \* the value of FUSION_TOOLS_ENABLED in the process environment
    toolsets,      \* package toolsets: the registered toolsets, by name
    registerFusionTools, \* package toolsets: the registration hook
    inits,         \* the packages whose init() has run
    loaded,        \* the last config.LoadFromEnv call: the value it read, what it returned
    loads,         \* how often RegisterTools has run
    target,        \* ExecuteOnClusters: its target argument
    pc,            \* ExecuteOnClusters: position of the calling goroutine
    clusterNames,  \* ExecuteOnClusters: the resolved names
    wpc,           \* position of the worker goroutine of each resolved name
    opBehav,       \* what the operation does in each worker's invocation
    timeout,       \* ExecuteOnClusters: the per-endpoint timeout, in seconds
    expired,       \* whether the deadline of each worker's opCtx has passed
    invoked,       \* how often each worker has invoked the operation
    resultChan,    \* the buffered channel: results sent and not yet received
    closed,        \* whether resultChan has been closed
    result,        \* the targeting.Result under construction
    snapshot,      \* ExecuteOnAllClusters: clients, the map GetAllClients returned
    results,       \* ExecuteOnAllClusters: results, the map it returns
    outcome,       \* ExecuteOnCluster: what each call returned to its worker
    gpc,           \* ExecuteOnCluster: where the goroutine running fn is, per call
    chans,         \* ExecuteOnCluster: resultChan and errorChan, per call
    lmu,           \* ExecuteOnAllClusters: the local mutex mu, the worker holding it
    removed,       \* the names removed from the registry since the snapshot
    atLookup,      \* whether each name was registered when its worker looked it up
    globalRegistry,     \* the package variable globalRegistry: nil or a Registry
    globalRegistryOnce, \* the package variable globalRegistryOnce: done, and who holds its mutex
    globalRegistryMu,   \* the package variable globalRegistryMu: who holds it
    gat,                \* where each goroutine is in GetOrCreateRegistry or ResetGlobalRegistry
    singleton,          \* what has been constructed and returned since the last reset
    api,                \* what the API server of a cluster answers, and which calls fail
    status              \* the status operation last run: what it returned, what was recorded

resolveVars == <<rt, avail, hist>>
initVars == <<env, toolsets, registerFusionTools, inits, loaded, loads>>
execVars == <<snapshot, results, outcome, gpc, chans, lmu, removed, atLookup>>
globalVars == <<globalRegistry, globalRegistryOnce, globalRegistryMu, gat, singleton>>
statusVars == <<api, status>>
laterVars == <<execVars, globalVars, statusVars>>
harnessVars == <<last, lastCall, returned, mu, at, initVars, laterVars>>
dispatchVars == <<clients, defaultTimeout, target, pc, clusterNames, timeout, wpc, opBehav, expired,
                  invoked, resultChan, closed>>
vars == <<rt, avail, hist, clients, defaultTimeout, last, lastCall, returned, mu, at, env,
          toolsets, registerFusionTools, inits, loaded, loads, target, pc, clusterNames, timeout, wpc, opBehav,
          expired, invoked, resultChan, closed, result, laterVars>>

ZeroTarget == MakeTarget("", "", <<>>, "", "", 0)

\* NewResult
NewResult(t) ==
    [Target |-> t, ClusterResults |-> <<>>, Errors |-> <<>>, SummaryError |-> NoErr]

NoData == "<nil data>"

\* m[key] = value of a Go map
MapPut(m, key, value) ==
    [k \in DOMAIN m \cup {key} |-> IF k = key THEN value ELSE m[k]]

\* mutant of AddClusterResult: a failure discards the outcomes recorded so far
AddClusterResultFailFast(r, clusterName, data, err) ==
    IF err # NoErr
    THEN [r EXCEPT !.ClusterResults =
                       MapPut(<<>>, clusterName,
                              [ClusterName |-> clusterName, Data |-> data,
                               Success |-> FALSE, Error |-> err]),
                   !.Errors = MapPut(@, clusterName, err)]
    ELSE [r EXCEPT !.ClusterResults =
                       MapPut(@, clusterName,
                              [ClusterName |-> clusterName, Data |-> data,
                               Success |-> TRUE, Error |-> ""])]

AddClusterResult(r, clusterName, data, err) ==
    LET res == [ClusterName |-> clusterName, Data |-> data, Success |-> (err = NoErr),
                Error |-> IF err # NoErr THEN err ELSE ""]
    IN  [r EXCEPT !.ClusterResults = MapPut(@, clusterName, res),
                  !.Errors = IF err # NoErr THEN MapPut(@, clusterName, err) ELSE @]

HasErrors(r) == Cardinality(DOMAIN r.Errors) > 0

SuccessCount(r) ==
    Cardinality({n \in DOMAIN r.ClusterResults : r.ClusterResults[n].Success})

FailureCount(r) == Cardinality(DOMAIN r.Errors)

TotalCount(r) == Cardinality(DOMAIN r.ClusterResults)

RECURSIVE SeqsUpTo(_, _)
SeqsUpTo(S, n) ==
    IF n = 0 THEN {<<>>}
    ELSE LET shorter == SeqsUpTo(S, n - 1)
         IN  shorter \cup {Append(q, x) : q \in {r \in shorter : Len(r) = n - 1}, x \in S}

ResolveIdle == rt = ZeroTarget /\ avail = <<>> /\ hist = <<>>

\* NewRegistry
NewRegistryTimeout == 30

InitIdle ==
    /\ env = "" /\ toolsets = <<>> /\ registerFusionTools = "" /\ inits = {}
    /\ loaded = <<>> /\ loads = 0

ExecIdle ==
    /\ snapshot = <<>> /\ results = <<>> /\ outcome = <<>> /\ gpc = <<>> /\ chans = <<>>
    /\ lmu = 0 /\ removed = {} /\ atLookup = <<>>

\* var globalRegistry *Registry
NilRegistry == 0

\* sync.Once{}
FreshOnce == [done |-> FALSE, m |-> "unlocked"]

GlobalIdle ==
    /\ globalRegistry = NilRegistry /\ globalRegistryOnce = FreshOnce
    /\ globalRegistryMu = "unlocked" /\ gat = <<>> /\ singleton = <<>>

StatusIdle == api = <<>> /\ status = <<>>

LaterIdle == ExecIdle /\ GlobalIdle /\ StatusIdle

HarnessIdle ==
    /\ last = <<>> /\ lastCall = <<>> /\ returned = <<>> /\ mu = <<>> /\ at = <<>>
    /\ InitIdle
    /\ LaterIdle

DispatchIdle ==
    /\ clients = <<>> /\ defaultTimeout = NewRegistryTimeout /\ target = ZeroTarget /\ pc = "idle" /\ clusterNames = <<>>
    /\ timeout = 0
    /\ wpc = <<>> /\ opBehav = <<>> /\ expired = <<>> /\ invoked = <<>>
    /\ resultChan = <<>> /\ closed = FALSE

(***************************************************************************)
(* The resolvers as pure functions: the inputs are drawn in Init and the   *)
(* actions call GetClusterNames and ResolveClusterNames on them.           *)
(***************************************************************************)
AvailNames == {"x", "x-1", "xy", "y-1", "X-2"}
ListedNames == {"", "x", "y-1", "zz"}
FleetNames == {"", "x", "y", "X"}
SelectorPairs == {"name=x", "name=y", "env=X", " name = 1 ", "zone=q", "x-1"}
Selectors ==
    {"", ",", "name=x=1"} \cup SelectorPairs
        \cup {p \o "," \o q : p \in SelectorPairs, q \in SelectorPairs}
TargetTypes == {"", TargetSingle, TargetMulti, TargetFleet, TargetSelector, TargetAll, "bogus"}

ResolverTargets ==
    {MakeTarget(ty, c, <<>>, "", "", 0) : ty \in {"", TargetSingle}, c \in ListedNames}
    \cup {MakeTarget(TargetMulti, "", cs, "", "", 0) : cs \in SeqsUpTo(ListedNames, MaxClusters)}
    \cup {MakeTarget(TargetFleet, "", <<>>, f, "", 0) : f \in FleetNames}
    \cup {MakeTarget(TargetSelector, "", <<>>, "", sel, 0) : sel \in Selectors}
    \cup {MakeTarget(ty, "", <<>>, "", "", 0) : ty \in TargetTypes}
    \cup {MakeTarget(ty, "x", <<"x-1", "zz">>, "x", "env=x", 0) : ty \in TargetTypes}
    \cup {NilTarget}

InitResolve ==
    /\ rt \in ResolverTargets
    /\ avail \in SeqsUpTo(AvailNames, MaxAvail)
    /\ hist = <<>>
    /\ HarnessIdle
    /\ DispatchIdle
    /\ result = NewResult(ZeroTarget)

Called(fn, out) ==
    [fn |-> fn, before |-> rt, names |-> out.names, err |-> out.err]

CallGetClusterNames ==
    /\ Len(hist) < MaxCalls
    /\ LET out == GetClusterNames(rt, avail)
       IN  /\ hist' = Append(hist, Called("GetClusterNames", out))
           /\ rt' = out.t
    /\ UNCHANGED <<avail, harnessVars, dispatchVars, result>>

CallResolveClusterNames ==
    /\ Len(hist) < MaxCalls
    /\ LET out == ResolveClusterNames(rt)
       IN  /\ hist' = Append(hist, Called("ResolveClusterNames", out))
           /\ rt' = out.t
    /\ UNCHANGED <<avail, harnessVars, dispatchVars, result>>

NextResolve == CallGetClusterNames \/ CallResolveClusterNames

SpecResolve == InitResolve /\ [][NextResolve]_vars

(***************************************************************************)
(* Claims about the resolvers (checked under SpecResolve).                 *)
(***************************************************************************)
GetCalls == {i \in 1..Len(hist) : hist[i].fn = "GetClusterNames"}
ResolveCalls == {i \in 1..Len(hist) : hist[i].fn = "ResolveClusterNames"}

\* c equals g or is g, a "-" and anything
InGroup(c, g) ==
    c = g \/ (Len(c) > Len(g) /\ SubSeq(c, 1, Len(g) + 1) = g \o "-")

ReturnsExactly(h, want) ==
    IF Len(want) = 0 THEN h.err # NoErr /\ h.names = <<>>
    ELSE h.err = NoErr /\ h.names = want

\* C8: for a fleet target with a non-empty group g, GetClusterNames returns
\* exactly the available names equal to g or starting with g + "-", in the
\* order of the available list, and an error with no names when none qualify.
C8_FleetResolution ==
    \A i \in GetCalls :
        LET h == hist[i]
        IN  (h.before.Type = TargetFleet /\ h.before.Fleet # "") =>
                ReturnsExactly(h, SelectSeq(avail, LAMBDA c : InGroup(c, h.before.Fleet)))

\* a fleet call that kept one name and dropped another that merely starts with g
C8_Witness ==
    \E i \in GetCalls :
        /\ hist[i].before.Type = TargetFleet
        /\ hist[i].before.Fleet = "x"
        /\ avail = <<"xy", "x-1">>
        /\ hist[i].names = <<"x-1">>

\* the key=value pairs of a selector expression, in order, duplicates kept
PairsOf(selector) ==
    LET pieces == Split(selector, ",")
        trimmed == [i \in 1..Len(pieces) |-> TrimSpace(pieces[i])]
        withEq == SelectSeq(trimmed, LAMBDA piece : Index(piece, "=") # 0)
    IN  [i \in 1..Len(withEq) |->
            LET eq == Index(withEq[i], "=")
            IN  [key |-> TrimSpace(SubSeq(withEq[i], 1, eq - 1)),
                 value |-> TrimSpace(SubSeq(withEq[i], eq + 1, Len(withEq[i])))]]

SatisfiesEveryPair(c, selector) ==
    \A i \in 1..Len(PairsOf(selector)) :
        LET pair == PairsOf(selector)[i]
        IN  /\ pair.key = "name" => Contains(c, pair.value)
            /\ pair.key = "env" => Contains(ToLower(c), ToLower(pair.value))

\* C9: for a selector target, GetClusterNames returns exactly the available
\* names that satisfy every key=value pair of the expression (name: substring,
\* env: case-insensitive substring, other keys ignored), also when a key
\* occurs more than once, and an error when no name matches.
C9_SelectorEveryPair ==
    \A i \in GetCalls :
        LET h == hist[i]
        IN  (h.before.Type = TargetSelector /\ h.before.Selector # "") =>
                ReturnsExactly(h, SelectSeq(avail,
                                    LAMBDA c : SatisfiesEveryPair(c, h.before.Selector)))

Distinct(names) ==
    \A i, j \in 1..Len(names) : names[i] = names[j] => i = j

\* C10: for a multi target with N distinct, non-empty names, GetClusterNames
\* and ResolveClusterNames both return exactly those N names in their given
\* order, whatever names are available.
C10_MultiVerbatim ==
    \A i \in 1..Len(hist) :
        LET h == hist[i]
        IN  (/\ h.before.Type = TargetMulti
             /\ Len(h.before.Clusters) > 0
             /\ Distinct(h.before.Clusters)
             /\ \A k \in 1..Len(h.before.Clusters) : h.before.Clusters[k] # "")
            => h.err = NoErr /\ h.names = h.before.Clusters

\* both resolvers called on a two-name multi target, one name available, one not
C10_Witness ==
    /\ GetCalls # {} /\ ResolveCalls # {}
    /\ rt.Type = TargetMulti
    /\ rt.Clusters = <<"zz", "x">>
    /\ avail = <<"x">>
    /\ \A i \in 1..Len(hist) : hist[i].names = <<"zz", "x">>

NameSet(names) == {names[k] : k \in 1..Len(names)}

SameOutcome(first, second) ==
    /\ second.err = first.err
    /\ NameSet(second.names) = NameSet(first.names)
    /\ first.before.Type \in {"", TargetSingle, TargetMulti} => second.names = first.names

\* C11: calling the same resolver twice on one Target value, the available
\* list unchanged, gives the same outcome both times: the same error, or the
\* same set of names (the same sequence for single and multi), for every
\* target, one with an empty kind included.
C11_ResolutionIdempotent ==
    \A i, j \in 1..Len(hist) :
        (i < j /\ hist[i].fn = hist[j].fn) => SameOutcome(hist[i], hist[j])

\* C22: for every target and every list of available names, the empty list
\* included, GetClusterNames returns an error and no names, or no error and a
\* non-empty list of non-empty names.
C22_ErrorOrNames ==
    \A i \in GetCalls :
        LET h == hist[i]
        IN  \/ h.err # NoErr /\ h.names = <<>>
            \/ /\ h.err = NoErr
               /\ Len(h.names) > 0
               /\ \A k \in 1..Len(h.names) : h.names[k] # ""


\* C27: the two resolvers agree on single and multi targets. Whenever one of
\* them has been called on a Target whose kind is single, multi or empty,
\* the other one, called on the same Target value, returns the same error,
\* or no error and the same list of names.
C27_ResolversAgree ==
    \A i \in DOMAIN hist :
        LET h == hist[i]
            other == IF h.fn = "GetClusterNames"
                     THEN ResolveClusterNames(h.before)
                     ELSE GetClusterNames(h.before, avail)
        IN  h.before.Type \in {"", TargetSingle, TargetMulti} =>
                /\ other.err = h.err
                /\ h.err = NoErr => other.names = h.names

(***************************************************************************)
(* targeting.Result on its own: any sequence of AddClusterResult calls.    *)
(***************************************************************************)
ResultNames == {"a", "b", "c"}
ResultData == {NoData, "{}"}
ResultErrs == {NoErr, "boom", "context deadline exceeded"}

InitResult ==
    /\ result = NewResult(ZeroTarget)
    /\ ResolveIdle
    /\ HarnessIdle
    /\ DispatchIdle

CallAddClusterResult ==
    /\ \E clusterName \in ResultNames, data \in ResultData, err \in ResultErrs :
            result' = AddClusterResult(result, clusterName, data, err)
    /\ UNCHANGED <<resolveVars, harnessVars, dispatchVars>>

NextResult == CallAddClusterResult

SpecResult == InitResult /\ [][NextResult]_vars

\* C2: after any sequence of AddClusterResult calls, also with a name recorded
\* more than once with different success/failure,
\* SuccessCount() + FailureCount() = TotalCount() = len(ClusterResults).
C2_CountsAgree ==
    /\ SuccessCount(result) + FailureCount(result) = TotalCount(result)
    /\ TotalCount(result) = Cardinality(DOMAIN result.ClusterResults)

\* C21: every outcome stored in a Result has a data payload exactly when its
\* Success is true and a non-empty error message exactly when its Success is
\* false.
C21_DataIffSuccess ==
    \A n \in DOMAIN result.ClusterResults :
        LET o == result.ClusterResults[n]
        IN  /\ o.Data # NoData <=> o.Success
            /\ o.Error # "" <=> ~o.Success


\* the names whose stored outcome is a failure
FailedNames(r) == {n \in DOMAIN r.ClusterResults : ~r.ClusterResults[n].Success}

\* C28: in every state of a Result the keys of Errors are the names whose
\* stored outcome has Success = false, Errors[name] is the Error text of that
\* outcome, and HasErrors() is true exactly when some stored outcome is a
\* failure, also after a name has been recorded again with another status.
C28_ErrorsMirrorFailures ==
    /\ DOMAIN result.Errors = FailedNames(result)
    /\ \A n \in DOMAIN result.Errors : result.Errors[n] = result.ClusterResults[n].Error
    /\ HasErrors(result) <=> FailedNames(result) # {}

(***************************************************************************)
(* The registry and services.ExecuteOnClusters.                            *)
(*                                                                         *)
(* One dispatch is modelled, against the registry as the registrations     *)
(* made before it left it.  The calling goroutine resolves the target and  *)
(* launches one worker per resolved name (pc = "collect"); a worker looks  *)
(* its client up (wpc "start"), runs the operation (wpc "op") and sends    *)
(* one ClusterResult (wpc "done"); the closer goroutine closes resultChan  *)
(* when wg.Wait() returns; the caller receives until the channel is closed *)
(* and drained.                                                            *)
(*                                                                         *)
(* The operation is the caller's: an invocation either returns before the  *)
(* deadline of its context ("ok", "err", "unmarshalable") or is still      *)
(* running when the deadline passes, and then returns the context's error  *)
(* ("slow"), returns its data late ("slowok") or never returns ("hang").   *)
(***************************************************************************)
RegistryNames == {"a", "a-1", "b", "default"}
DispatchListed == {"a", "b"}
OpBehaviours == {"ok", "err", "unmarshalable", "slow", "slowok", "hang"}
Unmarshalable == "<chan>"

DispatchTimeouts == {0, 5}
DefaultTimeoutSeconds == 30

DispatchTargets ==
    {MakeTarget(ty, c, <<>>, "", "", s) :
        ty \in {"", TargetSingle}, c \in {""} \cup DispatchListed, s \in DispatchTimeouts}
    \cup {MakeTarget(TargetMulti, "", cs, "", "", s) :
        cs \in SeqsUpTo(DispatchListed, MaxClusters), s \in DispatchTimeouts}
    \cup {MakeTarget(TargetFleet, "", <<>>, f, "", s) : f \in {"", "a"}, s \in DispatchTimeouts}
    \cup {MakeTarget(TargetSelector, "", <<>>, "", sel, s) :
        sel \in {"", "name=a"}, s \in DispatchTimeouts}
    \cup {MakeTarget(ty, "", <<>>, "", "", s) : ty \in {TargetAll, "bogus"}, s \in DispatchTimeouts}

\* &ClusterClient{...}: the handle built for a context from its rest config
ClusterClient(contextName, restConfig) ==
    [Name |-> contextName, Context |-> contextName, Config |-> restConfig]

NoClient == [Name |-> "<nil>", Context |-> "<nil>", Config |-> "<nil>"]

\* clientcmd.LoadFromFile: an error, or the contexts of the file; of a context
\* the model keeps the server it names and whether a connection to it can be
\* constructed (ClientConfig and NewForConfig both succeed)
LoadError == [err |-> "no such file or directory", Contexts |-> <<>>]
Loaded(contexts) == [err |-> NoErr, Contexts |-> contexts]
Context(server, constructible) == [Server |-> server, Constructible |-> constructible]

\* the kubeconfig the dispatcher's registry is filled from
DispatchKubeconfig == Loaded([n \in RegistryNames |-> Context("s1", TRUE)])

\* mutant of GetClient: no existence check
GetClientUnchecked(cs, clusterName) ==
    [client |-> ClusterClient(clusterName, "s1"), err |-> NoErr]

GetClient(cs, clusterName) ==
    IF clusterName \in DOMAIN cs
    THEN [client |-> cs[clusterName], err |-> NoErr]
    ELSE [client |-> NoClient, err |-> "cluster " \o clusterName \o " not found in registry"]

\* every order of a set, as a range over a Go map may visit it
Orders(S) ==
    {order \in SeqsUpTo(S, Cardinality(S)) :
        Len(order) = Cardinality(S) /\ {order[i] : i \in 1..Len(order)} = S}

\* ListClusterNames ranges over the map: every order of the registered names
ListClusterNames(cs) == Orders(DOMAIN cs)

HasCluster(cs, clusterName) == clusterName \in DOMAIN cs

\* delete(r.clients, clusterName)
Delete(cs, clusterName) == [k \in DOMAIN cs \ {clusterName} |-> cs[k]]

\* mutant of registerContext: a name already registered keeps its handle
registerContextKeepsFirst(cs, config, contextName) ==
    IF ~config.Contexts[contextName].Constructible
    THEN [clients |-> cs,
          err |-> "failed to create client config for context " \o contextName]
    ELSE [clients |-> IF contextName \in DOMAIN cs THEN cs
                      ELSE MapPut(cs, contextName,
                                  ClusterClient(contextName,
                                                config.Contexts[contextName].Server)),
          err |-> NoErr]

\* registerContext: the map as it leaves it, and the error
registerContext(cs, config, contextName) ==
    IF ~config.Contexts[contextName].Constructible
    THEN [clients |-> cs,
          err |-> "failed to create client config for context " \o contextName]
    ELSE [clients |-> MapPut(cs, contextName,
                             ClusterClient(contextName, config.Contexts[contextName].Server)),
          err |-> NoErr]

\* Registry.RegisterContext, under the lock
RegisterNamedContext(cs, file, contextName) ==
    IF file.err # NoErr
    THEN [clients |-> cs, err |-> "failed to load kubeconfig: " \o file.err]
    ELSE IF contextName \notin DOMAIN file.Contexts
         THEN [clients |-> cs,
               err |-> "context " \o contextName \o " not found in kubeconfig"]
         ELSE registerContext(cs, file, contextName)

\* mutant of resolutionFailed: the error of the resolver is not looked at
resolutionIgnored(err) == FALSE

\* if err != nil, after ResolveClusterNames
resolutionFailed(err) == err # NoErr

\* mutant of wgWait: returns when the first worker is done
wgWaitFirst(w) == \E i \in DOMAIN w : w[i] = "done"

\* wg.Wait(): every worker has run its deferred wg.Done()
wgWait(w) == \A i \in DOMAIN w : w[i] = "done"

\* json.Marshal
Marshal(data) ==
    IF data = Unmarshalable
    THEN [json |-> "", err |-> "json: unsupported type: chan int"]
    ELSE [json |-> "\"" \o data \o "\"", err |-> NoErr]

\* what an invocation of the operation on a client returns
OperationReturn(b, client) ==
    CASE b \in {"ok", "slowok"} -> [data |-> "status of " \o client, err |-> NoErr]
      [] b = "err" -> [data |-> NoData, err |-> "boom"]
      [] b = "unmarshalable" -> [data |-> Unmarshalable, err |-> NoErr]
      [] b = "slow" -> [data |-> NoData, err |-> "context deadline exceeded"]

OperationReturns(b, deadlinePassed) ==
    \/ b \in {"ok", "err", "unmarshalable"}
    \/ b \in {"slow", "slowok"} /\ deadlinePassed

\* mutant of retried: a failed operation is invoked a second time
retriedOnError(err, n) == err # NoErr /\ n < 2

\* if err != nil { resultChan <- ...; return }: the operation is not invoked again
retried(err, n) == FALSE

FailedResult(name, msg) ==
    [Cluster |-> name, Success |-> FALSE, Error |-> msg, Data |-> NoData]

\* the ClusterResult a worker sends once the operation has returned
WorkerResult(name, data, err) ==
    IF err # NoErr THEN FailedResult(name, err)
    ELSE LET m == Marshal(data)
         IN  IF m.err # NoErr
             THEN FailedResult(name, "failed to marshal data: " \o m.err)
             ELSE [Cluster |-> name, Success |-> TRUE, Error |-> "", Data |-> m.json]

Init ==
    /\ ResolveIdle
    /\ HarnessIdle
    /\ DispatchIdle
    /\ result = NewResult(ZeroTarget)

RegisterContext(contextName) ==
    /\ pc = "idle"
    /\ clients' = RegisterNamedContext(clients, DispatchKubeconfig, contextName).clients
    /\ UNCHANGED <<resolveVars, harnessVars, defaultTimeout, target, pc, clusterNames, timeout, wpc, opBehav, expired, invoked,
                   resultChan, closed, result>>

UnregisterCluster(clusterName) ==
    /\ pc = "idle"
    /\ clients' = Delete(clients, clusterName)
    /\ UNCHANGED <<resolveVars, harnessVars, defaultTimeout, target, pc, clusterNames, timeout, wpc, opBehav, expired, invoked,
                   resultChan, closed, result>>

Clear ==
    /\ pc = "idle"
    /\ clients' = <<>>
    /\ UNCHANGED <<resolveVars, harnessVars, defaultTimeout, target, pc, clusterNames, timeout, wpc, opBehav, expired, invoked,
                   resultChan, closed, result>>

SetTimeouts == {60}

SetTimeout(seconds) ==
    /\ pc = "idle"
    /\ defaultTimeout' = seconds
    /\ UNCHANGED <<resolveVars, harnessVars, clients, target, pc, clusterNames, timeout, wpc,
                   opBehav, expired, invoked, resultChan, closed, result>>

\* ExecuteOnClusters up to its collecting loop
ExecuteOnClusters(t) ==
    /\ pc = "idle"
    /\ target' = t
    /\ LET out == ResolveClusterNames(t)
       IN  IF resolutionFailed(out.err)
           THEN /\ result' = [NewResult(t) EXCEPT !.SummaryError = out.err]
                /\ pc' = "done"
                /\ UNCHANGED <<clusterNames, timeout, wpc, opBehav, expired, invoked>>
           ELSE /\ result' = NewResult(t)
                /\ pc' = "collect"
                /\ timeout' = IF out.t.Timeout > 0 THEN out.t.Timeout ELSE DefaultTimeoutSeconds
                /\ clusterNames' = out.names
                /\ wpc' = [i \in 1..Len(out.names) |-> "start"]
                /\ opBehav' = [i \in 1..Len(out.names) |-> "none"]
                /\ expired' = [i \in 1..Len(out.names) |-> FALSE]
                /\ invoked' = [i \in 1..Len(out.names) |-> 0]
    /\ UNCHANGED <<resolveVars, harnessVars, clients, defaultTimeout, resultChan, closed>>

\* a worker up to the invocation of the operation
WorkerGetClient(i) ==
    /\ pc = "collect"
    /\ i \in DOMAIN wpc
    /\ wpc[i] = "start"
    /\ LET got == GetClient(clients, clusterNames[i])
       IN  IF got.err # NoErr
           THEN /\ resultChan' = Append(resultChan,
                        FailedResult(clusterNames[i], "failed to get client: " \o got.err))
                /\ wpc' = [wpc EXCEPT ![i] = "done"]
                /\ UNCHANGED <<opBehav, invoked>>
           ELSE /\ \E b \in OpBehaviours : opBehav' = [opBehav EXCEPT ![i] = b]
                /\ invoked' = [invoked EXCEPT ![i] = @ + 1]
                /\ wpc' = [wpc EXCEPT ![i] = "op"]
                /\ UNCHANGED resultChan
    /\ UNCHANGED <<resolveVars, harnessVars, clients, defaultTimeout, target, pc, clusterNames, timeout, expired, closed,
                   result>>

\* the deadline of a worker's opCtx passes while the operation is running
DeadlineExpires(i) ==
    /\ i \in DOMAIN wpc
    /\ wpc[i] = "op"
    /\ opBehav[i] \in {"slow", "slowok", "hang"}
    /\ ~expired[i]
    /\ expired' = [expired EXCEPT ![i] = TRUE]
    /\ UNCHANGED <<resolveVars, harnessVars, clients, defaultTimeout, target, pc, clusterNames, timeout, wpc, opBehav, invoked,
                   resultChan, closed, result>>

\* the operation returns; the worker sends its result and ends
OperationReturned(i) ==
    /\ i \in DOMAIN wpc
    /\ wpc[i] = "op"
    /\ OperationReturns(opBehav[i], expired[i])
    /\ LET ret == OperationReturn(opBehav[i], clusterNames[i])
       IN  IF retried(ret.err, invoked[i])
           THEN /\ invoked' = [invoked EXCEPT ![i] = @ + 1]
                /\ UNCHANGED <<resultChan, wpc>>
           ELSE /\ resultChan' = Append(resultChan, WorkerResult(clusterNames[i], ret.data, ret.err))
                /\ wpc' = [wpc EXCEPT ![i] = "done"]
                /\ UNCHANGED invoked
    /\ UNCHANGED <<resolveVars, harnessVars, clients, defaultTimeout, target, pc, clusterNames, timeout, opBehav, expired,
                   closed, result>>

\* the closer goroutine: wg.Wait(); close(resultChan)
CloseResultChan ==
    /\ pc = "collect"
    /\ ~closed
    /\ wgWait(wpc)
    /\ closed' = TRUE
    /\ UNCHANGED <<resolveVars, harnessVars, clients, defaultTimeout, target, pc, clusterNames, timeout, wpc, opBehav, expired,
                   invoked, resultChan, result>>

\* one iteration of the collecting loop
Collect ==
    /\ pc = "collect"
    /\ Len(resultChan) > 0
    /\ LET clusterResult == Head(resultChan)
       IN  result' = AddClusterResult(result, clusterResult.Cluster, clusterResult.Data,
                        IF ~clusterResult.Success THEN clusterResult.Error ELSE NoErr)
    /\ resultChan' = Tail(resultChan)
    /\ UNCHANGED <<resolveVars, harnessVars, clients, defaultTimeout, target, pc, clusterNames, timeout, wpc, opBehav, expired,
                   invoked, closed>>

\* the channel is closed and drained: ExecuteOnClusters returns result
Return ==
    /\ pc = "collect"
    /\ Len(resultChan) = 0
    /\ closed
    /\ pc' = "done"
    /\ UNCHANGED <<resolveVars, harnessVars, clients, defaultTimeout, target, clusterNames, timeout, wpc, opBehav, expired,
                   invoked, resultChan, closed, result>>

Workers == 1..MaxClusters

Next ==
    \/ \E n \in RegistryNames : RegisterContext(n)
    \/ \E n \in RegistryNames : UnregisterCluster(n)
    \/ Clear
    \/ \E seconds \in SetTimeouts : SetTimeout(seconds)
    \/ \E t \in DispatchTargets : ExecuteOnClusters(t)
    \/ \E i \in Workers : WorkerGetClient(i)
    \/ \E i \in Workers : DeadlineExpires(i)
    \/ \E i \in Workers : OperationReturned(i)
    \/ CloseResultChan
    \/ Collect
    \/ Return

Spec == Init /\ [][Next]_vars

\* The Go scheduler runs every runnable goroutine, timers fire, and an
\* operation that is going to return does return.
FairSpec ==
    /\ Spec
    /\ \A i \in Workers : WF_vars(WorkerGetClient(i))
    /\ \A i \in Workers : WF_vars(DeadlineExpires(i))
    /\ \A i \in Workers : WF_vars(OperationReturned(i))
    /\ WF_vars(CloseResultChan)
    /\ WF_vars(Collect)
    /\ WF_vars(Return)

(***************************************************************************)
(* Claims about services.ExecuteOnClusters.                                *)
(***************************************************************************)
Resolved == {clusterNames[i] : i \in DOMAIN clusterNames}
Returned == pc = "done" /\ result.SummaryError = NoErr
Outcomes == result.ClusterResults

\* C1: ExecuteOnClusters returns only after every worker it launched has
\* delivered its result, and the outcome map then has exactly one entry for
\* every resolved name, failed lookups included, and none for another name.
C1_JoinThenExactOutcomes ==
    Returned =>
        /\ \A i \in DOMAIN wpc : wpc[i] = "done"
        /\ Len(resultChan) = 0
        /\ DOMAIN Outcomes = Resolved
        /\ \A n \in DOMAIN Outcomes : Outcomes[n].ClusterName = n

\* returned from two workers, one after a failed lookup, one after the operation
C1_Witness ==
    /\ Returned
    /\ clusterNames = <<"a", "b">>
    /\ DOMAIN clients = {"b"}
    /\ invoked = <<0, 1>>

\* C3: if an endpoint's operation has not returned when the endpoint's deadline
\* expires, a failed (timeout) outcome is recorded for the endpoint and the
\* dispatcher eventually returns, even if the operation never returns.
C3_TimeoutRecordedAndReturns ==
    \A i \in Workers :
        (i \in DOMAIN wpc /\ wpc[i] = "op" /\ expired[i])
            ~> (/\ pc = "done"
                /\ i \in DOMAIN clusterNames
                /\ clusterNames[i] \in DOMAIN Outcomes
                /\ ~Outcomes[clusterNames[i]].Success)

\* the outcome of endpoint e as a function of e alone: whether e is registered
\* and what the operation does on e
OwnOutcome(e, registered, b) ==
    IF ~registered
    THEN [ClusterName |-> e, Success |-> FALSE, Data |-> NoData,
          Error |-> "failed to get client: cluster " \o e \o " not found in registry"]
    ELSE CASE b \in {"ok", "slowok"} ->
                [ClusterName |-> e, Success |-> TRUE,
                 Data |-> "\"status of " \o e \o "\"", Error |-> ""]
           [] b = "err" ->
                [ClusterName |-> e, Success |-> FALSE, Data |-> NoData, Error |-> "boom"]
           [] b = "unmarshalable" ->
                [ClusterName |-> e, Success |-> FALSE, Data |-> NoData,
                 Error |-> "failed to marshal data: json: unsupported type: chan int"]
           [] b = "slow" ->
                [ClusterName |-> e, Success |-> FALSE, Data |-> NoData,
                 Error |-> "context deadline exceeded"]

\* C4: per-endpoint isolation.  The outcome recorded for endpoint e is
\* determined by e's registration and the operation's behaviour on e alone,
\* so two dispatches that differ only in what happens on other endpoints
\* (success, error, missing client, slowness) record the same outcome for e;
\* no failure elsewhere removes e's outcome or lets the call return without it.
C4_IsolatedOutcome ==
    Returned =>
        \A i \in DOMAIN clusterNames :
            LET e == clusterNames[i]
            IN  (\A j \in DOMAIN clusterNames : clusterNames[j] = e => opBehav[j] = opBehav[i])
                    => /\ e \in DOMAIN Outcomes
                       /\ Outcomes[e] = OwnOutcome(e, e \in DOMAIN clients, opBehav[i])

\* a succeeds although b's operation failed before it
C4_Witness ==
    /\ Returned
    /\ clusterNames = <<"b", "a">>
    /\ {"a", "b"} \subseteq DOMAIN clients
    /\ opBehav = <<"err", "ok">>
    /\ Outcomes["a"].Success
    /\ ~Outcomes["b"].Success

\* C5: when validation or resolution of the target fails, the returned result
\* carries the resolution error, its outcome map is empty, no worker is
\* launched and the operation is never invoked.
C5_ResolutionFailure ==
    (pc # "idle" /\ ResolveClusterNames(target).err # NoErr) =>
        /\ pc = "done"
        /\ result.SummaryError = ResolveClusterNames(target).err
        /\ DOMAIN Outcomes = {}
        /\ DOMAIN result.Errors = {}
        /\ DOMAIN wpc = {}
        /\ DOMAIN invoked = {}
        /\ Len(resultChan) = 0

\* an invalid multi target against a registry that has endpoints
C5_Witness ==
    /\ pc = "done"
    /\ target.Type = TargetMulti
    /\ result.SummaryError = "at least one cluster required for multi target"
    /\ DOMAIN clients = {"a", "b"}

Missing == {n \in Resolved : n \notin DOMAIN clients}

\* C6: for a multi target listing an unregistered name, that name gets a
\* failed outcome saying it was not found, the operation is never invoked for
\* it, every other listed name still has its outcome, and FailureCount counts
\* the missing name once ([a, b] with only a registered and a's operation
\* succeeding: 2 outcomes, 1 failure).
C6_MissingName ==
    (Returned /\ target.Type = TargetMulti) =>
        /\ \A i \in DOMAIN clusterNames :
              clusterNames[i] \in Missing =>
                  /\ clusterNames[i] \in DOMAIN Outcomes
                  /\ ~Outcomes[clusterNames[i]].Success
                  /\ Contains(Outcomes[clusterNames[i]].Error, "not found")
                  /\ clusterNames[i] \in DOMAIN result.Errors
                  /\ invoked[i] = 0
        /\ \A i \in DOMAIN clusterNames : clusterNames[i] \in DOMAIN Outcomes
        /\ (\A i \in DOMAIN clusterNames :
                clusterNames[i] \in DOMAIN clients => opBehav[i] \in {"ok", "slowok"})
              => /\ FailureCount(result) = Cardinality(Missing)
                 /\ TotalCount(result) = Cardinality(Resolved)
                 /\ SuccessCount(result) = Cardinality(Resolved \ Missing)

\* the scenario of the claim: [a, b], only a registered, a succeeds
C6_Witness ==
    /\ Returned
    /\ target.Type = TargetMulti
    /\ clusterNames = <<"a", "b">>
    /\ DOMAIN clients = {"a"}
    /\ opBehav[1] = "ok"
    /\ TotalCount(result) = 2
    /\ FailureCount(result) = 1

Names(seq) == {seq[i] : i \in 1..Len(seq)}

\* C7: ExecuteOnClusters resolves the target against the registered names:
\* for all, fleet and selector targets the names it dispatches to are those
\* of Target.GetClusterNames(registry.ListClusterNames()).
C7_ResolvesAgainstRegistry ==
    (pc # "idle" /\ target.Type \in {TargetAll, TargetFleet, TargetSelector}) =>
        \A order \in ListClusterNames(clients) :
            LET got == GetClusterNames(target, order)
            IN  IF got.err # NoErr
                THEN result.SummaryError # NoErr /\ DOMAIN wpc = {}
                ELSE result.SummaryError = NoErr /\ Resolved = Names(got.names)

KnownKinds == {TargetSingle, TargetMulti, TargetFleet, TargetSelector, TargetAll}

RequiredFieldPresent(t, kind) ==
    CASE kind = TargetSingle -> t.Cluster # ""
      [] kind = TargetMulti -> Len(t.Clusters) > 0
      [] kind = TargetFleet -> t.Fleet # ""
      [] kind = TargetSelector -> t.Selector # ""
      [] kind = TargetAll -> TRUE
      [] OTHER -> FALSE

DefaultedKind(t) == IF t.Type = "" THEN TargetSingle ELSE t.Type

\* Validate returned nil for the dispatched target
Accepted == result.SummaryError = NoErr

NothingDispatched ==
    /\ pc = "done" /\ wpc = <<>> /\ invoked = <<>> /\ resultChan = <<>>
    /\ result.ClusterResults = <<>>

PassesRule(t) == t.Type = "" \/ RequiredFieldPresent(t, t.Type)

C13_DeadlineFromTargetOrRegistry ==
    (pc # "idle" /\ wpc # <<>>) =>
        timeout = IF target.Timeout > 0 THEN target.Timeout ELSE defaultTimeout

\* C18: when ExecuteOnClusters is called with the zero Target (a tool invoked
\* without a target), the result it returns echoes a target of type "single"
\* and holds exactly one cluster result, under the key "default".
C18_NoTargetDefaults ==
    (pc = "done" /\ target = ZeroTarget) =>
        /\ result.SummaryError = NoErr
        /\ result.Target.Type = TargetSingle
        /\ DOMAIN result.ClusterResults = {"default"}


\* C24: no retry. Once a worker of services.ExecuteOnClusters has looked its
\* name up, the operation has been invoked exactly once for it if the name is
\* registered and never if it is not, one worker per occurrence of the name
\* in the resolved list, and that stays so whatever the operation returns.
C24_InvokedOncePerOccurrence ==
    /\ DOMAIN invoked = DOMAIN clusterNames
    /\ \A i \in DOMAIN invoked :
           /\ invoked[i] <= 1
           /\ wpc[i] # "start" =>
                  invoked[i] = IF clusterNames[i] \in DOMAIN clients THEN 1 ELSE 0

\* a registered name listed twice, the call returned: the operation failed
\* for one occurrence and succeeded or ran out of time for the other
C24_Witness ==
    /\ pc = "done"
    /\ \E i, j \in DOMAIN clusterNames :
           /\ i # j /\ clusterNames[i] = clusterNames[j]
           /\ opBehav[i] = "err" /\ opBehav[j] \in {"slow", "ok"}
           /\ invoked[i] = 1 /\ invoked[j] = 1

(***************************************************************************)
(* The Registry on its own: any sequence of its calls, each one atomic (it *)
(* runs under r.mu), and a caller holding the map GetAllClients returned.  *)
(* The harness records, of every name, the last call that affected it, and *)
(* of the last call its arguments and what it returned.                    *)
(***************************************************************************)
ContextNames == {"a", "b"}
InCluster == "in-cluster"
RegistryKeys == ContextNames \cup {InCluster}
Servers == {"s1", "s2"}
ContextValues == {Context(server, TRUE) : server \in Servers} \cup {Context("s1", FALSE)}
KubeconfigFiles ==
    {LoadError} \cup {Loaded(contexts) :
                        contexts \in UNION {[S -> ContextValues] : S \in SUBSET ContextNames}}

\* mutant of abortsLoop: the first failing context ends the loop
abortsLoopOnError(err) == err # NoErr

\* RegisterFromKubeconfig's loop: "continue" on an error, nothing leaves it early
abortsLoop(err) == FALSE

\* the loop of RegisterFromKubeconfig over the contexts in the order visited
RECURSIVE registerEach(_, _, _)
registerEach(cs, config, order) ==
    IF Len(order) = 0 THEN cs
    ELSE LET out == registerContext(cs, config, Head(order))
         IN  IF abortsLoop(out.err) THEN out.clients
             ELSE registerEach(out.clients, config, Tail(order))

RegisterFromKubeconfig(cs, file, order) ==
    IF file.err # NoErr
    THEN [clients |-> cs, err |-> "failed to load kubeconfig: " \o file.err]
    ELSE [clients |-> registerEach(cs, file, order), err |-> NoErr]

\* RegisterInCluster; available: rest.InClusterConfig and NewForConfig succeed
RegisterInCluster(cs, available) ==
    IF ~available
    THEN [clients |-> cs, err |-> "failed to get in-cluster config"]
    ELSE [clients |-> MapPut(cs, InCluster, ClusterClient(InCluster, "in-cluster-config")),
          err |-> NoErr]

\* mutant of GetAllClients: the registry's own map is handed out
GetAllClientsShared(cs) == [held |-> TRUE, shared |-> TRUE, m |-> cs]

\* GetAllClients: a new map with the entries of r.clients. A map value is its
\* entries and whether it is the very map r.clients refers to.
GetAllClients(cs) == [held |-> TRUE, shared |-> FALSE, m |-> [k \in DOMAIN cs |-> cs[k]]]

NoMap == [held |-> FALSE, shared |-> FALSE, m |-> <<>>]
NeverCalled == [op |-> "none", client |-> NoClient]
Removed == [op |-> "remove", client |-> NoClient]
NoCall == [fn |-> "none", arg |-> "", before |-> <<>>, err |-> NoErr, ret |-> ""]

\* a handle the caller builds itself
CallersClient(name) == ClusterClient(name, "callers-own")

registryFrame ==
    <<resolveVars, initVars, defaultTimeout, mu, at, target, pc, clusterNames, timeout, wpc, opBehav,
      expired, invoked, resultChan, closed, result, laterVars>>

InitRegistry ==
    /\ LaterIdle
    /\ ResolveIdle
    /\ DispatchIdle
    /\ result = NewResult(ZeroTarget)
    /\ mu = <<>> /\ at = <<>>
    /\ InitIdle
    /\ last = [n \in RegistryKeys |-> NeverCalled]
    /\ lastCall = NoCall
    /\ returned = NoMap

Record(fn, arg, before, err, ret) ==
    lastCall' = [fn |-> fn, arg |-> arg, before |-> before, err |-> err, ret |-> ret]

\* the registry's map is written in place: a map shared with it changes too
WriteInPlace(cs) ==
    /\ clients' = cs
    /\ returned' = IF returned.shared THEN [returned EXCEPT !.m = cs] ELSE returned

\* the names the call registered get their new handle as last affecting call
Registered(handles) ==
    last' = [n \in RegistryKeys |->
                IF n \in DOMAIN handles THEN [op |-> "register", client |-> handles[n]]
                ELSE last[n]]

CallRegisterFromKubeconfig(file) ==
    /\ \E order \in Orders(DOMAIN file.Contexts) :
          LET out == RegisterFromKubeconfig(clients, file, order)
          IN  /\ WriteInPlace(out.clients)
              /\ Record("RegisterFromKubeconfig", file, clients, out.err, "")
    /\ Registered([n \in {c \in DOMAIN file.Contexts : file.Contexts[c].Constructible} |->
                        ClusterClient(n, file.Contexts[n].Server)])
    /\ UNCHANGED registryFrame

CallRegisterContext(file, contextName) ==
    /\ LET out == RegisterNamedContext(clients, file, contextName)
       IN  /\ WriteInPlace(out.clients)
           /\ Record("RegisterContext", contextName, <<>>, out.err, "")
           /\ Registered([n \in IF out.err = NoErr THEN {contextName} ELSE {} |->
                              ClusterClient(n, file.Contexts[n].Server)])
    /\ UNCHANGED registryFrame

CallRegisterInCluster(available) ==
    /\ LET out == RegisterInCluster(clients, available)
       IN  /\ WriteInPlace(out.clients)
           /\ Record("RegisterInCluster", available, <<>>, out.err, "")
           /\ Registered([n \in IF available THEN {InCluster} ELSE {} |->
                              ClusterClient(n, "in-cluster-config")])
    /\ UNCHANGED registryFrame

CallUnregisterCluster(clusterName) ==
    /\ WriteInPlace(Delete(clients, clusterName))
    /\ Record("UnregisterCluster", clusterName, clients, NoErr, "")
    /\ last' = [last EXCEPT ![clusterName] = Removed]
    /\ UNCHANGED registryFrame

\* Clear points r.clients at a new map: a map shared with it stays as it was
CallClear ==
    /\ clients' = <<>>
    /\ returned' = [returned EXCEPT !.shared = FALSE]
    /\ Record("Clear", "", <<>>, NoErr, "")
    /\ last' = [n \in RegistryKeys |-> Removed]
    /\ UNCHANGED registryFrame

CallGetClient(clusterName) ==
    /\ LET got == GetClient(clients, clusterName)
       IN  Record("GetClient", clusterName, <<>>, got.err, got.client)
    /\ UNCHANGED <<clients, last, returned, registryFrame>>

CallHasCluster(clusterName) ==
    /\ Record("HasCluster", clusterName, <<>>, NoErr, HasCluster(clients, clusterName))
    /\ UNCHANGED <<clients, last, returned, registryFrame>>

CallListClusterNames ==
    /\ \E names \in ListClusterNames(clients) :
          Record("ListClusterNames", "", <<>>, NoErr, names)
    /\ UNCHANGED <<clients, last, returned, registryFrame>>

CallGetAllClients ==
    /\ returned' = GetAllClients(clients)
    /\ Record("GetAllClients", "", <<>>, NoErr, "")
    /\ UNCHANGED <<clients, last, registryFrame>>

\* the caller writes to the map it was given: a shared map is the registry's
CallerWrites(fn, name, m) ==
    /\ returned.held
    /\ returned' = [returned EXCEPT !.m = m]
    /\ clients' = IF returned.shared THEN m ELSE clients
    /\ Record(fn, name, <<>>, NoErr, "")
    /\ UNCHANGED <<last, registryFrame>>

CallerPuts(name) == CallerWrites("caller puts", name, MapPut(returned.m, name, CallersClient(name)))

CallerDeletes(name) == CallerWrites("caller deletes", name, Delete(returned.m, name))

NextRegistry ==
    \/ \E file \in KubeconfigFiles : CallRegisterFromKubeconfig(file)
    \/ \E file \in KubeconfigFiles, n \in ContextNames : CallRegisterContext(file, n)
    \/ \E available \in BOOLEAN : CallRegisterInCluster(available)
    \/ \E n \in RegistryKeys : CallUnregisterCluster(n)
    \/ CallClear
    \/ \E n \in RegistryKeys : CallGetClient(n)
    \/ \E n \in RegistryKeys : CallHasCluster(n)
    \/ CallListClusterNames
    \/ CallGetAllClients
    \/ \E n \in RegistryKeys : CallerPuts(n)
    \/ \E n \in RegistryKeys : CallerDeletes(n)

SpecRegistry == InitRegistry /\ [][NextRegistry]_vars

(***************************************************************************)
(* Claims about the Registry (checked under SpecRegistry).                 *)
(***************************************************************************)
InForce == {n \in RegistryKeys : last[n].op = "register"}

\* C14: the Registry is a map with unique keys. After any sequence of
\* registrations, UnregisterCluster and Clear calls, GetClient(n) and
\* HasCluster(n) report n present exactly when the last call that affected n
\* was a registration, GetClient returns the handle of that registration,
\* ListClusterNames holds each present name exactly once, UnregisterCluster
\* of an absent name changes nothing, and after Clear no name is present.
C14_RegistryIsMap ==
    /\ lastCall.fn = "GetClient" =>
          /\ lastCall.err = NoErr <=> lastCall.arg \in InForce
          /\ lastCall.err = NoErr => lastCall.ret = last[lastCall.arg].client
    /\ lastCall.fn = "HasCluster" => (lastCall.ret <=> lastCall.arg \in InForce)
    /\ lastCall.fn = "ListClusterNames" =>
          Distinct(lastCall.ret) /\ NameSet(lastCall.ret) = InForce
    /\ (lastCall.fn = "UnregisterCluster" /\ lastCall.arg \notin DOMAIN lastCall.before) =>
          clients = lastCall.before
    /\ lastCall.fn = "Clear" =>
          \A n \in RegistryKeys : ~HasCluster(clients, n) /\ GetClient(clients, n).err # NoErr

\* a is looked up after it was registered for s2 and b was removed
C14_Witness ==
    /\ lastCall.fn = "GetClient" /\ lastCall.arg = "a"
    /\ lastCall.ret = ClusterClient("a", "s2")
    /\ last["b"].op = "remove"
    /\ InCluster \in InForce

CallerCalls == {"caller puts", "caller deletes"}
WritingCalls ==
    {"RegisterFromKubeconfig", "RegisterContext", "RegisterInCluster", "UnregisterCluster",
     "Clear"}

\* C15: GetAllClients returns a copy. The caller adding, replacing or deleting
\* entries of the map it got leaves the registry's mapping as it was, and a
\* later registration, UnregisterCluster or Clear leaves a map handed out
\* earlier as it was.
C15_DefensiveCopy ==
    [][/\ lastCall'.fn \in CallerCalls => clients' = clients
       /\ (lastCall'.fn \in WritingCalls /\ returned.held) => returned'.m = returned.m]_vars

\* the caller has put its own handle for a into the map it got, and the
\* registry, cleared later, differs from that map
C15_Witness ==
    /\ returned.held
    /\ "a" \in DOMAIN returned.m /\ returned.m["a"] = CallersClient("a")
    /\ "b" \in DOMAIN returned.m /\ returned.m["b"] = ClusterClient("b", "s1")
    /\ lastCall.fn = "Clear"
    /\ clients = <<>>

ConstructibleIn(file) == {n \in DOMAIN file.Contexts : file.Contexts[n].Constructible}

\* C17: RegisterFromKubeconfig on a loadable kubeconfig registers every
\* context whose connection can be constructed under its context name,
\* however many other contexts fail and in whatever order they are visited;
\* a failing context adds no entry, the entries registered before the call
\* are kept, and the call returns nil.
C17_BestEffortPerContext ==
    (lastCall.fn = "RegisterFromKubeconfig" /\ lastCall.arg.err = NoErr) =>
        LET file == lastCall.arg
            before == lastCall.before
        IN  /\ lastCall.err = NoErr
            /\ \A n \in ConstructibleIn(file) :
                  /\ n \in DOMAIN clients
                  /\ clients[n] = ClusterClient(n, file.Contexts[n].Server)
            /\ \A n \in RegistryKeys \ ConstructibleIn(file) :
                  /\ n \in DOMAIN clients <=> n \in DOMAIN before
                  /\ n \in DOMAIN before => clients[n] = before[n]
            /\ DOMAIN before \subseteq DOMAIN clients

\* the kubeconfig has a failing context a and a constructible context b; the
\* in-cluster entry was registered before
C17_Witness ==
    /\ lastCall.fn = "RegisterFromKubeconfig"
    /\ lastCall.arg = Loaded([n \in ContextNames |->
                                 IF n = "a" THEN Context("s1", FALSE) ELSE Context("s2", TRUE)])
    /\ DOMAIN lastCall.before = {InCluster}
    /\ DOMAIN clients = {"b", InCluster}

(***************************************************************************)
(* The Registry's calls step by step, interleaved: each goroutine runs the *)
(* lock operations and the reads and writes of r.clients and r.timeout of  *)
(* the call it is in, in program order. A read or write takes two steps,   *)
(* so that two accesses can be under way at once.                          *)
(***************************************************************************)
Goroutines == {"g1", "g2"}
LockNames == {"a"}

Lock == [op |-> "Lock"]
Unlock == [op |-> "Unlock"]
RLock == [op |-> "RLock"]
RUnlock == [op |-> "RUnlock"]
\* a read of a field; of r.clients it notes whether the name looked for is there
ReadField(field, name) == [op |-> "read", field |-> field, name |-> name]
WriteTimeout(seconds) == [op |-> "write", field |-> "timeout", seconds |-> seconds]
WriteClients(how, name) == [op |-> "write", field |-> "clients", how |-> how, name |-> name]
\* if err != nil { return nil, err } after GetClient
ReturnIfMissing == [op |-> "return if missing"]

AnyName == "<any>"

ProgSetTimeout(seconds) == <<Lock, WriteTimeout(seconds), Unlock>>
\* a registration that fails before it reads r.timeout
ProgRegisterFailsEarly == <<Lock, Unlock>>
\* registerContext failing in kubernetes.NewForConfig
ProgRegisterFailsLate == <<Lock, ReadField("timeout", ""), Unlock>>
ProgRegisterContext(name) ==
    <<Lock, ReadField("timeout", ""), WriteClients("put", name), Unlock>>
ProgRegisterInCluster == <<Lock, WriteClients("put", InCluster), Unlock>>
ProgUnregisterCluster(name) == <<Lock, WriteClients("delete", name), Unlock>>
ProgClear == <<Lock, WriteClients("make", ""), Unlock>>
ProgGetClient(name) == <<RLock, ReadField("clients", name), RUnlock>>
ProgReadAll == <<RLock, ReadField("clients", AnyName), RUnlock>>
ProgExecuteOnCluster(name) ==
    ProgGetClient(name) \o <<ReturnIfMissing, ReadField("timeout", "")>>
\* GetAllClients, then ExecuteOnCluster for a name of the snapshot
ProgExecuteOnAllClusters(name) ==
    ProgReadAll \o <<ReturnIfMissing>> \o ProgExecuteOnCluster(name)

RegistryCalls ==
    {[fn |-> "SetTimeout", prog |-> ProgSetTimeout(seconds)] : seconds \in SetTimeouts}
    \cup {[fn |-> "RegisterInCluster", prog |-> prog] :
            prog \in {ProgRegisterFailsEarly, ProgRegisterInCluster}}
    \cup {[fn |-> fn, prog |-> prog] :
            fn \in {"RegisterFromKubeconfig", "RegisterContext"},
            prog \in {ProgRegisterFailsEarly, ProgRegisterFailsLate}
                        \cup {ProgRegisterContext(n) : n \in LockNames}}
    \cup {[fn |-> "UnregisterCluster", prog |-> ProgUnregisterCluster(n)] : n \in LockNames}
    \cup {[fn |-> "Clear", prog |-> ProgClear]}
    \cup {[fn |-> fn, prog |-> ProgGetClient(n)] : fn \in {"GetClient", "HasCluster"},
                                                     n \in LockNames}
    \cup {[fn |-> fn, prog |-> ProgReadAll] : fn \in {"GetAllClients", "ListClusterNames"}}
    \cup {[fn |-> "ExecuteOnCluster", prog |-> ProgExecuteOnCluster(n)] : n \in LockNames}
    \cup {[fn |-> "ExecuteOnAllClusters", prog |-> ProgExecuteOnAllClusters(n)] :
            n \in LockNames \cup {InCluster}}

NotInCall == [fn |-> "none", prog |-> <<>>, next |-> 1, busy |-> FALSE, found |-> FALSE]
Unlocked == [writer |-> "", readers |-> {}]

lockFrame ==
    <<resolveVars, initVars, last, lastCall, returned, target, pc, clusterNames, timeout, wpc, opBehav,
      expired, invoked, resultChan, closed, result, laterVars>>

InitLock ==
    /\ LaterIdle
    /\ ResolveIdle
    /\ DispatchIdle
    /\ result = NewResult(ZeroTarget)
    /\ last = <<>> /\ lastCall = <<>> /\ returned = <<>>
    /\ InitIdle
    /\ mu = Unlocked
    /\ at = [g \in Goroutines |-> NotInCall]

InCall(g) == at[g].fn # "none" /\ at[g].next <= Len(at[g].prog)
Current(g) == at[g].prog[at[g].next]
Advance(g) == at' = [at EXCEPT ![g].next = @ + 1, ![g].busy = FALSE]

StartCall(g, call) ==
    /\ at[g].fn = "none"
    /\ at' = [at EXCEPT ![g] = [NotInCall EXCEPT !.fn = call.fn, !.prog = call.prog]]
    /\ UNCHANGED <<mu, clients, defaultTimeout, lockFrame>>

\* r.mu.Lock() and r.mu.RLock(): sync.RWMutex
AcquireLock(g) ==
    /\ InCall(g)
    /\ \/ /\ Current(g) = Lock
          /\ mu = Unlocked
          /\ mu' = [mu EXCEPT !.writer = g]
       \/ /\ Current(g) = RLock
          /\ mu.writer = ""
          /\ mu' = [mu EXCEPT !.readers = @ \cup {g}]
    /\ Advance(g)
    /\ UNCHANGED <<clients, defaultTimeout, lockFrame>>

ReleaseLock(g) ==
    /\ InCall(g)
    /\ \/ Current(g) = Unlock /\ mu' = [mu EXCEPT !.writer = ""]
       \/ Current(g) = RUnlock /\ mu' = [mu EXCEPT !.readers = @ \ {g}]
    /\ Advance(g)
    /\ UNCHANGED <<clients, defaultTimeout, lockFrame>>

BeginAccess(g) ==
    /\ InCall(g)
    /\ Current(g).op \in {"read", "write"}
    /\ ~at[g].busy
    /\ at' = [at EXCEPT ![g].busy = TRUE]
    /\ UNCHANGED <<mu, clients, defaultTimeout, lockFrame>>

Find(name) == IF name = AnyName THEN DOMAIN clients # {} ELSE name \in DOMAIN clients

EndRead(g) ==
    /\ InCall(g)
    /\ Current(g).op = "read"
    /\ at[g].busy
    /\ at' = [at EXCEPT ![g].next = @ + 1, ![g].busy = FALSE,
                        ![g].found = IF Current(g).field = "clients"
                                     THEN Find(Current(g).name) ELSE @]
    /\ UNCHANGED <<mu, clients, defaultTimeout, lockFrame>>

EndWrite(g) ==
    /\ InCall(g)
    /\ Current(g).op = "write"
    /\ at[g].busy
    /\ IF Current(g).field = "timeout"
       THEN defaultTimeout' = Current(g).seconds /\ UNCHANGED clients
       ELSE /\ clients' =
                 CASE Current(g).how = "put" ->
                        MapPut(clients, Current(g).name, ClusterClient(Current(g).name, "s1"))
                   [] Current(g).how = "delete" -> Delete(clients, Current(g).name)
                   [] Current(g).how = "make" -> <<>>
            /\ UNCHANGED defaultTimeout
    /\ Advance(g)
    /\ UNCHANGED <<mu, lockFrame>>

CheckClient(g) ==
    /\ InCall(g)
    /\ Current(g) = ReturnIfMissing
    /\ at' = IF at[g].found THEN [at EXCEPT ![g].next = @ + 1]
             ELSE [at EXCEPT ![g] = NotInCall]
    /\ UNCHANGED <<mu, clients, defaultTimeout, lockFrame>>

CallReturns(g) ==
    /\ at[g].fn # "none"
    /\ at[g].next > Len(at[g].prog)
    /\ at' = [at EXCEPT ![g] = NotInCall]
    /\ UNCHANGED <<mu, clients, defaultTimeout, lockFrame>>

NextLock ==
    \/ \E g \in Goroutines, call \in RegistryCalls : StartCall(g, call)
    \/ \E g \in Goroutines : AcquireLock(g)
    \/ \E g \in Goroutines : ReleaseLock(g)
    \/ \E g \in Goroutines : BeginAccess(g)
    \/ \E g \in Goroutines : EndRead(g)
    \/ \E g \in Goroutines : EndWrite(g)
    \/ \E g \in Goroutines : CheckClient(g)
    \/ \E g \in Goroutines : CallReturns(g)

SpecLock == InitLock /\ [][NextLock]_vars

Accessing(g, op) == InCall(g) /\ at[g].busy /\ Current(g).op = op

\* C16: under any interleaving of concurrent Registry calls, every write of
\* r.clients and r.timeout happens while its goroutine holds r.mu exclusively
\* and every read while it holds r.mu at least shared, so that no write is
\* under way together with another read or write of the same field.
C16_LockDiscipline ==
    /\ \A g \in Goroutines :
          /\ Accessing(g, "write") => mu.writer = g
          /\ Accessing(g, "read") => mu.writer = g \/ g \in mu.readers
    /\ \A g, h \in Goroutines :
          (g # h /\ Accessing(g, "write") /\ at[h].busy) =>
              Current(h).field # Current(g).field

(***************************************************************************)
(* Package initialisation: the toolsets registry (pkg/toolsets), the       *)
(* packages that register a toolset in their init(), and the feature gate  *)
(* of the Fusion toolset. Go initialises a package after the packages it   *)
(* imports, so toolsets.init() runs first.                                 *)
(***************************************************************************)
MaxLoads == 2      \* RegisterTools runs: fusion.init() and later direct calls

Unset == "<unset>"
EnvValues ==
    {Unset, "", "true", "1", "false", "0", "invalid", "  true  ", " 1", "1 ", "TRUE", "yes",
     "true 1", " "}

\* os.Getenv
Getenv(value) == IF value = Unset THEN "" ELSE value

\* config.LoadFromEnv
LoadFromEnv(value) == [Enabled |-> TrimSpace(Getenv(value)) \in {"true", "1"}]

\* toolsets.Register
Register(ts, toolset) == Append(ts, toolset)

\* (*Toolset).GetName of package fusion
FusionToolset == "fusion"
\* the toolsets of the upstream server, registered by their packages' init()
UpstreamToolsets == {"core", "config"}

\* mutant of RegisterTools: the toolset is registered whatever the config says
RegisterToolsUngated(ts, value) == Register(ts, FusionToolset)

\* fusion.RegisterTools
RegisterTools(ts, value) ==
    LET cfg == LoadFromEnv(value)
    IN  IF ~cfg.Enabled THEN ts ELSE Register(ts, FusionToolset)

initFrame ==
    <<resolveVars, clients, defaultTimeout, last, lastCall, returned, mu, at, target, pc,
      clusterNames, timeout, wpc, opBehav, expired, invoked, resultChan, closed, result, laterVars>>

\* the package-level variables as their initialisers leave them
InitPackages ==
    /\ LaterIdle
    /\ ResolveIdle
    /\ DispatchIdle
    /\ result = NewResult(ZeroTarget)
    /\ last = <<>> /\ lastCall = <<>> /\ returned = <<>> /\ mu = <<>> /\ at = <<>>
    /\ env \in EnvValues
    /\ toolsets = <<>>
    /\ registerFusionTools = "func() {}"
    /\ inits = {}
    /\ loaded = <<>>
    /\ loads = 0

\* toolsets.init(): calls the hook, which is the empty placeholder unless
\* SetFusionRegistration replaced it
ToolsetsInit ==
    /\ "toolsets" \notin inits
    /\ inits' = inits \cup {"toolsets"}
    /\ IF registerFusionTools = "RegisterTools"
       THEN /\ toolsets' = RegisterTools(toolsets, env)
            /\ loaded' = [value |-> env, cfg |-> LoadFromEnv(env)]
            /\ loads' = loads + 1
       ELSE UNCHANGED <<toolsets, loaded, loads>>
    /\ UNCHANGED <<env, registerFusionTools, initFrame>>

\* toolsets.SetFusionRegistration, callable once package toolsets is initialised
SetFusionRegistration(fn) ==
    /\ "toolsets" \in inits
    /\ registerFusionTools' = fn
    /\ UNCHANGED <<env, toolsets, inits, loaded, loads, initFrame>>

\* init() of an upstream toolset package
UpstreamInit(toolset) ==
    /\ "toolsets" \in inits
    /\ toolset \notin inits
    /\ inits' = inits \cup {toolset}
    /\ toolsets' = Register(toolsets, toolset)
    /\ UNCHANGED <<env, registerFusionTools, loaded, loads, initFrame>>

RunRegisterTools ==
    /\ toolsets' = RegisterTools(toolsets, env)
    /\ loaded' = [value |-> env, cfg |-> LoadFromEnv(env)]
    /\ loads' = loads + 1

\* fusion.init()
FusionInit ==
    /\ "toolsets" \in inits
    /\ FusionToolset \notin inits
    /\ inits' = inits \cup {FusionToolset}
    /\ RunRegisterTools
    /\ UNCHANGED <<env, registerFusionTools, initFrame>>

AllPackages == {"toolsets", FusionToolset} \cup UpstreamToolsets
Initialised == inits = AllPackages

\* the environment is changed by the running program
Setenv(value) ==
    /\ Initialised
    /\ env' = value
    /\ UNCHANGED <<toolsets, registerFusionTools, inits, loaded, loads, initFrame>>

\* a direct call of fusion.RegisterTools by the running program
CallRegisterTools ==
    /\ Initialised
    /\ loads < MaxLoads
    /\ RunRegisterTools
    /\ UNCHANGED <<env, registerFusionTools, inits, initFrame>>

NextPackages ==
    \/ ToolsetsInit
    \/ \E fn \in {"func() {}", "RegisterTools"} : SetFusionRegistration(fn)
    \/ \E toolset \in UpstreamToolsets : UpstreamInit(toolset)
    \/ FusionInit
    \/ \E value \in EnvValues : Setenv(value)
    \/ CallRegisterTools

SpecPackages == InitPackages /\ [][NextPackages]_vars

(***************************************************************************)
(* Claims about the feature gate (checked under SpecPackages).             *)
(***************************************************************************)
\* value is core with nothing but white space before and after it
Surrounds(value, core) ==
    \E i \in 1..Len(value) :
        /\ i + Len(core) - 1 <= Len(value)
        /\ SubSeq(value, i, i + Len(core) - 1) = core
        /\ \A k \in (1..(i - 1)) \cup ((i + Len(core))..Len(value)) : Char(value, k) = " "

Count(ts, name) == Cardinality({i \in 1..Len(ts) : ts[i] = name})

\* C20: after package initialisation (toolsets.init, then fusion.init), the
\* list of toolsets holds a toolset named "fusion" exactly when Fusion tools
\* are enabled, holds it once then, and is otherwise the list it would be
\* without the extension (each upstream toolset, once); RegisterTools with
\* Enabled = false leaves the list unchanged.
C20_FeatureGate ==
    /\ [](Initialised /\ loads = 1 =>
            /\ Count(toolsets, FusionToolset) = IF loaded.cfg.Enabled THEN 1 ELSE 0
            /\ \A u \in UpstreamToolsets : Count(toolsets, u) = 1
            /\ Len(toolsets) = Cardinality(UpstreamToolsets)
                                  + IF loaded.cfg.Enabled THEN 1 ELSE 0)
    /\ [][(loads' = loads + 1 /\ ~loaded'.cfg.Enabled) => toolsets' = toolsets]_vars

\* initialisation is over with the gate closed: the upstream toolsets only
C20_Witness ==
    /\ Initialised /\ loads = 1
    /\ loaded.value = "false"
    /\ toolsets = <<"core", "config">>

(***************************************************************************)
(* Registry.ExecuteOnCluster and Registry.ExecuteOnAllClusters, with the   *)
(* registry changing under them.                                           *)
(***************************************************************************)
AllNames == {"a", "b"}
FnBehaviours == {"ok", "err", "hang"}

\* the registries the calls start from
AllRegistries ==
    {[n \in S |-> ClusterClient(n, "s1")] : S \in SUBSET AllNames}

\* make(chan interface{}, 1), make(chan error, 1)
ChanBuffer == 1

EmptyChans == [resultChan |-> <<>>, errorChan |-> <<>>]

\* mutant of sendBlocks: an unbuffered channel, a send waits for its receiver
sendBlocksUnbuffered(ch, receiving) == ~receiving

\* errorChan <- err, resultChan <- result: a send blocks while the buffer is full
sendBlocks(ch, receiving) == Len(ch) >= ChanBuffer

\* mutant of mutexFree: Lock never waits
mutexNeverHeld(m) == TRUE

\* mu.Lock() of the local sync.Mutex proceeds when no worker holds it
mutexFree(m) == m = 0

\* what fn returns on a client, if it returns
fnReturn(b, clusterName) ==
    IF b = "err" THEN [result |-> NoData, err |-> "boom"]
    ELSE [result |-> "status of " \o clusterName, err |-> NoErr]

TimedOut(clusterName) == "operation timed out for cluster " \o clusterName

\* what ExecuteOnCluster has not returned yet
NoOutcome == [Result |-> NoData, Error |-> "<pending>"]

\* the select statement: the cases that are ready, each with what the call
\* returns and what it leaves in the channels
selectCases(ch, deadlinePassed, clusterName) ==
    {[Result |-> ch.resultChan[1], Error |-> NoErr,
      chans |-> [ch EXCEPT !.resultChan = Tail(@)]] : x \in {1} \cap DOMAIN ch.resultChan}
    \cup {[Result |-> NoData, Error |-> ch.errorChan[1],
           chans |-> [ch EXCEPT !.errorChan = Tail(@)]] : x \in {1} \cap DOMAIN ch.errorChan}
    \cup {[Result |-> NoData, Error |-> TimedOut(clusterName), chans |-> ch] :
             x \in {1} \cap {IF deadlinePassed THEN 1 ELSE 0}}

\* ClusterResult{ClusterName: ..., Result: ..., Error: ...}
RegistryClusterResult(clusterName, res, err) ==
    [ClusterName |-> clusterName, Result |-> res, Error |-> err]

allFrame ==
    <<resolveVars, last, lastCall, returned, mu, at, initVars, globalVars, statusVars,
      defaultTimeout, target, timeout, resultChan, closed, result>>

InitAll ==
    /\ ResolveIdle
    /\ HarnessIdle
    /\ clients \in AllRegistries
    /\ defaultTimeout = NewRegistryTimeout /\ target = ZeroTarget /\ pc = "idle"
    /\ clusterNames = <<>> /\ timeout = 0
    /\ wpc = <<>> /\ opBehav = <<>> /\ expired = <<>> /\ invoked = <<>>
    /\ resultChan = <<>> /\ closed = FALSE
    /\ result = NewResult(ZeroTarget)

\* ExecuteOnAllClusters up to wg.Wait(): the snapshot, the results map, one
\* goroutine per name of the snapshot in the order the range visits them
ExecuteOnAllClusters ==
    /\ pc = "idle"
    /\ DOMAIN clients \subseteq AllNames
    /\ snapshot' = GetAllClients(clients).m
    /\ results' = <<>>
    /\ clusterNames' \in Orders(DOMAIN snapshot')
    /\ LET W == DOMAIN clusterNames'
       IN  /\ wpc' = [i \in W |-> "lookup"]
           /\ opBehav' \in [W -> FnBehaviours]
           /\ expired' = [i \in W |-> FALSE]
           /\ invoked' = [i \in W |-> 0]
           /\ outcome' = [i \in W |-> NoOutcome]
           /\ gpc' = [i \in W |-> "none"]
           /\ chans' = [i \in W |-> EmptyChans]
           /\ atLookup' = [i \in W |-> "pending"]
    /\ lmu' = 0
    /\ removed' = {}
    /\ pc' = "all-wait"
    /\ UNCHANGED <<allFrame, clients>>

\* ExecuteOnCluster up to the select: r.GetClient, and on success the
\* deadline, the two channels and the goroutine that runs fn
LookupClient(i) ==
    /\ i \in DOMAIN wpc
    /\ wpc[i] = "lookup"
    /\ LET got == GetClient(clients, clusterNames[i])
       IN  /\ atLookup' = [atLookup EXCEPT ![i] =
                              IF clusterNames[i] \in DOMAIN clients THEN "present" ELSE "absent"]
           /\ IF got.err # NoErr
              THEN /\ outcome' = [outcome EXCEPT ![i] = [Result |-> NoData, Error |-> got.err]]
                   /\ wpc' = [wpc EXCEPT ![i] = "lock"]
                   /\ UNCHANGED <<gpc, invoked>>
              ELSE /\ wpc' = [wpc EXCEPT ![i] = "select"]
                   /\ gpc' = [gpc EXCEPT ![i] = "fn"]
                   /\ invoked' = [invoked EXCEPT ![i] = @ + 1]
                   /\ UNCHANGED outcome
    /\ UNCHANGED <<allFrame, clients, pc, clusterNames, opBehav, expired, snapshot, results,
                   chans, lmu, removed>>

\* fn returns to the goroutine that called it
FnReturns(i) ==
    /\ i \in DOMAIN gpc
    /\ gpc[i] = "fn"
    /\ opBehav[i] # "hang"
    /\ gpc' = [gpc EXCEPT ![i] = "send"]
    /\ UNCHANGED <<allFrame, clients, pc, clusterNames, wpc, opBehav, expired, invoked, snapshot,
                   results, outcome, chans, lmu, removed, atLookup>>

\* the goroutine sends what fn returned on errorChan or resultChan and ends
SendOutcome(i) ==
    /\ i \in DOMAIN gpc
    /\ gpc[i] = "send"
    /\ LET ret == fnReturn(opBehav[i], clusterNames[i])
           receiving == wpc[i] = "select"
       IN  IF ret.err # NoErr
           THEN /\ ~sendBlocks(chans[i].errorChan, receiving)
                /\ chans' = [chans EXCEPT ![i].errorChan = Append(@, ret.err)]
           ELSE /\ ~sendBlocks(chans[i].resultChan, receiving)
                /\ chans' = [chans EXCEPT ![i].resultChan = Append(@, ret.result)]
    /\ gpc' = [gpc EXCEPT ![i] = "done"]
    /\ UNCHANGED <<allFrame, clients, pc, clusterNames, wpc, opBehav, expired, invoked, snapshot,
                   results, outcome, lmu, removed, atLookup>>

\* the deadline of context.WithTimeout(ctx, r.timeout) passes
DeadlinePasses(i) ==
    /\ i \in DOMAIN wpc
    /\ wpc[i] = "select"
    /\ ~expired[i]
    /\ expired' = [expired EXCEPT ![i] = TRUE]
    /\ UNCHANGED <<allFrame, clients, pc, clusterNames, wpc, opBehav, invoked, snapshot,
                   results, outcome, gpc, chans, lmu, removed, atLookup>>

\* the select takes a ready case and ExecuteOnCluster returns
SelectReturns(i) ==
    /\ i \in DOMAIN wpc
    /\ wpc[i] = "select"
    /\ \E c \in selectCases(chans[i], expired[i], clusterNames[i]) :
          /\ outcome' = [outcome EXCEPT ![i] = [Result |-> c.Result, Error |-> c.Error]]
          /\ chans' = [chans EXCEPT ![i] = c.chans]
    /\ wpc' = [wpc EXCEPT ![i] = "lock"]
    /\ UNCHANGED <<allFrame, clients, pc, clusterNames, opBehav, expired, invoked, snapshot,
                   results, gpc, lmu, removed, atLookup>>

\* mu.Lock()
LockResults(i) ==
    /\ i \in DOMAIN wpc
    /\ wpc[i] = "lock"
    /\ mutexFree(lmu)
    /\ lmu' = i
    /\ wpc' = [wpc EXCEPT ![i] = "write"]
    /\ UNCHANGED <<allFrame, clients, pc, clusterNames, opBehav, expired, invoked, snapshot,
                   results, outcome, gpc, chans, removed, atLookup>>

\* results[clusterName] = ClusterResult{...}
WriteResults(i) ==
    /\ i \in DOMAIN wpc
    /\ wpc[i] = "write"
    /\ results' = MapPut(results, clusterNames[i],
                         RegistryClusterResult(clusterNames[i], outcome[i].Result, outcome[i].Error))
    /\ wpc' = [wpc EXCEPT ![i] = "unlock"]
    /\ UNCHANGED <<allFrame, clients, pc, clusterNames, opBehav, expired, invoked, snapshot,
                   outcome, gpc, chans, lmu, removed, atLookup>>

\* mu.Unlock() and the deferred wg.Done()
UnlockResults(i) ==
    /\ i \in DOMAIN wpc
    /\ wpc[i] = "unlock"
    /\ lmu' = 0
    /\ wpc' = [wpc EXCEPT ![i] = "done"]
    /\ UNCHANGED <<allFrame, clients, pc, clusterNames, opBehav, expired, invoked, snapshot,
                   results, outcome, gpc, chans, removed, atLookup>>

\* wg.Wait(); return results
ReturnResults ==
    /\ pc = "all-wait"
    /\ wgWait(wpc)
    /\ pc' = "all-done"
    /\ UNCHANGED <<allFrame, clients, clusterNames, wpc, opBehav, expired, invoked, execVars>>

concurrentFrame ==
    <<allFrame, pc, clusterNames, wpc, opBehav, expired, invoked, snapshot, results, outcome,
      gpc, chans, lmu, atLookup>>

\* another goroutine registers a context while the call runs
ConcurrentRegister(contextName) ==
    /\ pc = "all-wait"
    /\ clients' = RegisterNamedContext(clients, DispatchKubeconfig, contextName).clients
    /\ UNCHANGED <<concurrentFrame, removed>>

\* another goroutine calls UnregisterCluster while the call runs
ConcurrentUnregister(clusterName) ==
    /\ pc = "all-wait"
    /\ clusterName \in DOMAIN clients
    /\ clients' = Delete(clients, clusterName)
    /\ removed' = removed \cup {clusterName}
    /\ UNCHANGED concurrentFrame

\* another goroutine calls Clear while the call runs
ConcurrentClear ==
    /\ pc = "all-wait"
    /\ clients # <<>>
    /\ clients' = <<>>
    /\ removed' = removed \cup DOMAIN clients
    /\ UNCHANGED concurrentFrame

NextAll ==
    \/ ExecuteOnAllClusters
    \/ \E i \in Workers : LookupClient(i)
    \/ \E i \in Workers : FnReturns(i)
    \/ \E i \in Workers : SendOutcome(i)
    \/ \E i \in Workers : DeadlinePasses(i)
    \/ \E i \in Workers : SelectReturns(i)
    \/ \E i \in Workers : LockResults(i)
    \/ \E i \in Workers : WriteResults(i)
    \/ \E i \in Workers : UnlockResults(i)
    \/ ReturnResults
    \/ \E n \in AllNames : ConcurrentRegister(n)
    \/ \E n \in AllNames : ConcurrentUnregister(n)
    \/ ConcurrentClear

SpecAll == InitAll /\ [][NextAll]_vars

\* The Go scheduler runs every runnable goroutine, the timer of the deadline
\* fires, and an fn that is going to return does return.
FairSpecAll ==
    /\ SpecAll
    /\ \A i \in Workers : WF_vars(LookupClient(i))
    /\ \A i \in Workers : WF_vars(FnReturns(i))
    /\ \A i \in Workers : WF_vars(SendOutcome(i))
    /\ \A i \in Workers : WF_vars(DeadlinePasses(i))
    /\ \A i \in Workers : WF_vars(SelectReturns(i))
    /\ \A i \in Workers : WF_vars(LockResults(i))
    /\ \A i \in Workers : WF_vars(WriteResults(i))
    /\ \A i \in Workers : WF_vars(UnlockResults(i))
    /\ WF_vars(ReturnResults)

\* both dispatchers over one registry
SpecDispatchers == Init /\ [][Next \/ NextAll]_vars

(***************************************************************************)
(* Claims about the two dispatchers.                                       *)
(***************************************************************************)
\* a worker of ExecuteOnAllClusters between mu.Lock() and mu.Unlock()
InCriticalSection(i) == wpc[i] \in {"write", "unlock"}

\* a step of the caller of services.ExecuteOnClusters: resolution, or the
\* collecting loop receiving a result
CollectorStep == pc = "idle" \/ (pc = "collect" /\ wpc' = wpc)

\* a step of a worker of ExecuteOnAllClusters that holds the local mutex
LockedWriterStep ==
    \E i \in DOMAIN wpc : wpc[i] = "write" /\ lmu = i /\ wpc'[i] = "unlock"

\* C23: the outcome map has one writer at a time. In ExecuteOnClusters only
\* the caller's steps change the Result and the workers' steps leave it
\* alone; in ExecuteOnAllClusters a worker writes results only between
\* mu.Lock() and mu.Unlock(), which one worker at a time is; and once either
\* function has returned its map no longer changes.
C23_OneWriterAtATime ==
    /\ [](\A i \in DOMAIN wpc : InCriticalSection(i) => lmu = i)
    /\ [][/\ result' # result => CollectorStep
          /\ results' # results => pc = "idle" \/ (pc = "all-wait" /\ LockedWriterStep)
          /\ pc \in {"done", "all-done"} => result' = result /\ results' = results]_vars

\* one worker writes results while another waits for the mutex
C23_Witness ==
    \E i, j \in DOMAIN wpc : wpc[i] = "write" /\ wpc[j] = "lock" /\ lmu = i

(***************************************************************************)
(* Claims about Registry.ExecuteOnCluster and ExecuteOnAllClusters.        *)
(***************************************************************************)
\* the ExecuteOnCluster calls that found their client and have returned
ReturnedCalls ==
    {i \in DOMAIN outcome : atLookup[i] = "present" /\ wpc[i] \notin {"lookup", "select"}}

\* what call i returned is what fn returned
ReturnedOutcomeOfFn(i) ==
    LET ret == fnReturn(opBehav[i], clusterNames[i])
    IN  /\ gpc[i] = "done"
        /\ outcome[i].Result = ret.result
        /\ outcome[i].Error = ret.err

\* C25: a call of Registry.ExecuteOnCluster that has reached its select
\* returns: what it returns is what fn delivered, or, only once the deadline
\* has passed and always when fn never returns, the "timed out" error; and
\* the goroutine running fn ends once fn has returned, whether or not the
\* call is still there to receive.
C25_ReturnsAndWorkerEnds ==
    /\ [](\A i \in ReturnedCalls :
             /\ outcome[i].Error = TimedOut(clusterNames[i]) => expired[i]
             /\ outcome[i].Error # TimedOut(clusterNames[i]) => ReturnedOutcomeOfFn(i)
             /\ opBehav[i] = "hang" => outcome[i].Error = TimedOut(clusterNames[i]))
    /\ \A i \in Workers :
           (i \in DOMAIN wpc /\ wpc[i] = "select") ~> (i \in DOMAIN wpc /\ wpc[i] # "select")
    /\ \A i \in Workers :
           (i \in DOMAIN gpc /\ gpc[i] = "send") ~> (i \in DOMAIN gpc /\ gpc[i] = "done")

\* a call timed out, fn returned afterwards and its goroutine has ended with
\* the result left in the channel
C25_Witness ==
    \E i \in ReturnedCalls :
        /\ outcome[i].Error = TimedOut(clusterNames[i])
        /\ opBehav[i] = "ok"
        /\ gpc[i] = "done"
        /\ Len(chans[i].resultChan) = 1

NotFound(clusterName) == GetClient(<<>>, clusterName).err

\* the worker ExecuteOnAllClusters started for a name of the snapshot
WorkerOf(n) == CHOOSE i \in DOMAIN clusterNames : clusterNames[i] = n

\* C26 as stated: the returned map has an entry for exactly the names of the
\* snapshot, and every name removed from the registry after the snapshot has
\* the not-found error in its entry and fn was not run for it.
C26_EntryPerSnapshotName ==
    pc = "all-done" =>
        /\ DOMAIN results = DOMAIN snapshot
        /\ \A n \in removed \cap DOMAIN snapshot :
               /\ results[n].Error = NotFound(n)
               /\ invoked[WorkerOf(n)] = 0

\* C26, amended: the returned map has an entry for exactly the names of the
\* snapshot; a name that is not registered at the moment its worker looks it
\* up has the not-found error in its entry and fn was not run for it; for a
\* name that is registered at that moment fn was run once and the entry
\* holds what ExecuteOnCluster returned, also when the name was removed
\* afterwards.
C26_EntryPerSnapshotNameAtLookup ==
    pc = "all-done" =>
        /\ DOMAIN results = DOMAIN snapshot
        /\ \A i \in DOMAIN clusterNames :
               LET n == clusterNames[i]
               IN  /\ results[n].ClusterName = n
                   /\ IF atLookup[i] = "absent"
                      THEN /\ results[n].Error = NotFound(n)
                           /\ results[n].Result = NoData
                           /\ invoked[i] = 0
                      ELSE /\ results[n].Error # NotFound(n)
                           /\ results[n].Error = outcome[i].Error
                           /\ results[n].Result = outcome[i].Result
                           /\ invoked[i] = 1

\* the call returned; a name of the snapshot was removed before its worker
\* looked it up, and a name registered after the snapshot is in the registry
C26_Witness ==
    /\ pc = "all-done"
    /\ \E i \in DOMAIN clusterNames : atLookup[i] = "absent" /\ clusterNames[i] \in removed
    /\ DOMAIN clients \ DOMAIN snapshot # {}

(***************************************************************************)
(* GetOrCreateRegistry and ResetGlobalRegistry called by two goroutines.   *)
(* sync.Once.Do is its fast path (done is set: return) and its slow path   *)
(* (lock the mutex of the Once, look at done again, run the function,      *)
(* set done, unlock).                                                      *)
(***************************************************************************)
MaxGlobalCalls == 3

NotCalling == [fn |-> "none", pc |-> "idle", clean |-> TRUE]

NothingBuilt == [calls |-> 0, built |-> 0, sinceReset |-> 0, returned |-> {}, cleanReturned |-> {},
                 crashed |-> FALSE]

\* if o.done.Load() == 0, on the fast path and again under the mutex
onceDone(once) == once.done

InitGlobal ==
    /\ ResolveIdle
    /\ DispatchIdle
    /\ result = NewResult(ZeroTarget)
    /\ last = <<>> /\ lastCall = <<>> /\ returned = <<>> /\ mu = <<>> /\ at = <<>>
    /\ InitIdle
    /\ ExecIdle
    /\ StatusIdle
    /\ globalRegistry = NilRegistry
    /\ globalRegistryOnce = FreshOnce
    /\ globalRegistryMu = "unlocked"
    /\ gat = [g \in Goroutines |-> NotCalling]
    /\ singleton = NothingBuilt

globalFrame ==
    <<resolveVars, dispatchVars, result, last, lastCall, returned, mu, at, initVars, execVars,
      statusVars>>

\* a goroutine calls GetOrCreateRegistry or ResetGlobalRegistry
StartGlobalCall(g, fn) ==
    /\ ~singleton.crashed
    /\ gat[g].pc = "idle"
    /\ singleton.calls < MaxGlobalCalls
    /\ gat' = [gat EXCEPT ![g] = [fn |-> fn, clean |-> TRUE,
                                  pc |-> IF fn = "GetOrCreateRegistry" THEN "once" ELSE "lock"]]
    /\ singleton' = [singleton EXCEPT !.calls = @ + 1]
    /\ UNCHANGED <<globalFrame, globalRegistry, globalRegistryOnce, globalRegistryMu>>

\* globalRegistryOnce.Do, fast path
OnceFastPath(g) ==
    /\ ~singleton.crashed
    /\ gat[g].pc = "once"
    /\ gat' = [gat EXCEPT ![g].pc = IF onceDone(globalRegistryOnce) THEN "return" ELSE "lockOnce"]
    /\ UNCHANGED <<globalFrame, globalRegistry, globalRegistryOnce, globalRegistryMu, singleton>>

\* globalRegistryOnce.Do, slow path: o.m.Lock() and the second look at done
OnceLock(g) ==
    /\ ~singleton.crashed
    /\ gat[g].pc = "lockOnce"
    /\ globalRegistryOnce.m = "unlocked"
    /\ globalRegistryOnce' = [globalRegistryOnce EXCEPT !.m = g]
    /\ gat' = [gat EXCEPT ![g].pc = IF onceDone(globalRegistryOnce) THEN "unlockOnce" ELSE "construct"]
    /\ UNCHANGED <<globalFrame, globalRegistry, globalRegistryMu, singleton>>

\* globalRegistry = NewRegistry(); _ = globalRegistry.RegisterFromKubeconfig(...)
Construct(g) ==
    /\ ~singleton.crashed
    /\ gat[g].pc = "construct"
    /\ globalRegistry' = singleton.built + 1
    /\ singleton' = [singleton EXCEPT !.built = @ + 1, !.sinceReset = @ + 1]
    /\ gat' = [gat EXCEPT ![g].pc = "setDone"]
    /\ UNCHANGED <<globalFrame, globalRegistryOnce, globalRegistryMu>>

\* the deferred o.done.Store(1)
OnceSetDone(g) ==
    /\ ~singleton.crashed
    /\ gat[g].pc = "setDone"
    /\ globalRegistryOnce' = [globalRegistryOnce EXCEPT !.done = TRUE]
    /\ gat' = [gat EXCEPT ![g].pc = "unlockOnce"]
    /\ UNCHANGED <<globalFrame, globalRegistry, globalRegistryMu, singleton>>

\* the deferred o.m.Unlock(): unlocking a mutex that is not locked, as it is
\* after the Once was replaced, is a fatal error
OnceUnlock(g) ==
    /\ ~singleton.crashed
    /\ gat[g].pc = "unlockOnce"
    /\ IF globalRegistryOnce.m = "unlocked"
       THEN /\ singleton' = [singleton EXCEPT !.crashed = TRUE]
            /\ UNCHANGED <<globalRegistryOnce, gat>>
       ELSE /\ globalRegistryOnce' = [globalRegistryOnce EXCEPT !.m = "unlocked"]
            /\ gat' = [gat EXCEPT ![g].pc = "return"]
            /\ UNCHANGED singleton
    /\ UNCHANGED <<globalFrame, globalRegistry, globalRegistryMu>>

\* return globalRegistry
ReturnGlobalRegistry(g) ==
    /\ ~singleton.crashed
    /\ gat[g].pc = "return"
    /\ singleton' = [singleton EXCEPT
                        !.returned = @ \cup {globalRegistry},
                        !.cleanReturned = IF gat[g].clean THEN @ \cup {globalRegistry} ELSE @]
    /\ gat' = [gat EXCEPT ![g] = NotCalling]
    /\ UNCHANGED <<globalFrame, globalRegistry, globalRegistryOnce, globalRegistryMu>>

\* ResetGlobalRegistry: globalRegistryMu.Lock()
ResetLock(g) ==
    /\ ~singleton.crashed
    /\ gat[g].pc = "lock"
    /\ globalRegistryMu = "unlocked"
    /\ globalRegistryMu' = g
    /\ gat' = [h \in Goroutines |->
                  IF h = g THEN [gat[h] EXCEPT !.pc = "setNil"] ELSE [gat[h] EXCEPT !.clean = FALSE]]
    /\ singleton' = [singleton EXCEPT !.cleanReturned = {}]
    /\ UNCHANGED <<globalFrame, globalRegistry, globalRegistryOnce>>

\* globalRegistry = nil
ResetSetNil(g) ==
    /\ ~singleton.crashed
    /\ gat[g].pc = "setNil"
    /\ globalRegistry' = NilRegistry
    /\ gat' = [gat EXCEPT ![g].pc = "setOnce"]
    /\ UNCHANGED <<globalFrame, globalRegistryOnce, globalRegistryMu, singleton>>

\* globalRegistryOnce = sync.Once{}
ResetSetOnce(g) ==
    /\ ~singleton.crashed
    /\ gat[g].pc = "setOnce"
    /\ globalRegistryOnce' = FreshOnce
    /\ singleton' = [singleton EXCEPT !.sinceReset = 0]
    /\ gat' = [gat EXCEPT ![g].pc = "unlock"]
    /\ UNCHANGED <<globalFrame, globalRegistry, globalRegistryMu>>

\* the deferred globalRegistryMu.Unlock()
ResetUnlock(g) ==
    /\ ~singleton.crashed
    /\ gat[g].pc = "unlock"
    /\ globalRegistryMu' = "unlocked"
    /\ gat' = [h \in Goroutines |->
                  IF h = g THEN NotCalling ELSE [gat[h] EXCEPT !.clean = FALSE]]
    /\ singleton' = [singleton EXCEPT !.cleanReturned = {}]
    /\ UNCHANGED <<globalFrame, globalRegistry, globalRegistryOnce>>

NextGlobal ==
    \/ \E g \in Goroutines, fn \in {"GetOrCreateRegistry", "ResetGlobalRegistry"} :
          StartGlobalCall(g, fn)
    \/ \E g \in Goroutines : OnceFastPath(g)
    \/ \E g \in Goroutines : OnceLock(g)
    \/ \E g \in Goroutines : Construct(g)
    \/ \E g \in Goroutines : OnceSetDone(g)
    \/ \E g \in Goroutines : OnceUnlock(g)
    \/ \E g \in Goroutines : ReturnGlobalRegistry(g)
    \/ \E g \in Goroutines : ResetLock(g)
    \/ \E g \in Goroutines : ResetSetNil(g)
    \/ \E g \in Goroutines : ResetSetOnce(g)
    \/ \E g \in Goroutines : ResetUnlock(g)

SpecGlobal == InitGlobal /\ [][NextGlobal]_vars

\* C29: under every interleaving of GetOrCreateRegistry and
\* ResetGlobalRegistry calls, GetOrCreateRegistry never returns nil, at most
\* one Registry is constructed between two resets, and the calls of
\* GetOrCreateRegistry that no reset ran into or came between return one and
\* the same Registry.
C29_OneRegistryBetweenResets ==
    /\ NilRegistry \notin singleton.returned
    /\ singleton.sinceReset <= 1
    /\ Cardinality(singleton.cleanReturned) <= 1

(***************************************************************************)
(* The status operations of package services, run on the answers of one    *)
(* cluster's API server. A call of a failing kind returns an error, as it  *)
(* does when the cluster is unreachable or the deadline of ctx has passed. *)
(***************************************************************************)
ApiCallKinds == {"namespaces", "discovery", "pods", "lists"}

Namespaces ==
    {"openshift-storage", "openshift-data-foundation", "openshift-adp", "ibm-spectrum-scale",
     "ibm-gdp", "ibm-data-catalog", "openshift-data-catalog", "ibm-cas",
     "openshift-must-gather-operator", "openshift-logging", "openshift-monitoring",
     "openshift-grafana", "openshift-cnv", "kubevirt", "hypershift"}

GVR(group, version, resource) == [Group |-> group, Version |-> version, Resource |-> resource]

\* an APIResourceList entry: the GroupVersion of its list and the resource name
ApiResource(groupVersion, name) == [GroupVersion |-> groupVersion, Name |-> name]

ApiResources ==
    {ApiResource("ceph.rook.io/v1", "cephclusters"),
     ApiResource("ramendr.openshift.io/v1alpha1", "drclusters"),
     ApiResource("velero.io/v1", "backups"),
     ApiResource("velero.io/v2alpha1", "backups"),
     ApiResource("opentelemetry.io/v1alpha1", "opentelemetrycollectors"),
     ApiResource("kubevirt.io/v1", "virtualmachines"),
     ApiResource("hypershift.openshift.io/v1beta1", "hostedclusters")}

Job(name, succeeded, failed, active) ==
    [Name |-> name, Succeeded |-> succeeded, Failed |-> failed, Active |-> active]

StorageClass(name, provisioner) == [Name |-> name, Provisioner |-> provisioner]

ApiAnswers ==
    [ns : {{}, Namespaces} \cup {{n} : n \in Namespaces},
     crds : {{}, ApiResources} \cup {{r} : r \in ApiResources},
     fail : SUBSET ApiCallKinds,
     pods : {0, 2},
     jobs : {<<>>, <<Job("nightly", 0, 1, 0), Job("weekly", 0, 0, 0)>>},
     storageClasses : {<<StorageClass("rbd", "openshift-storage.rbd.csi.ceph.com"),
                         StorageClass("gp3", "ebs.csi.aws.com")>>}]

ApiError == "context deadline exceeded"

\* CheckNamespaceExists: err == nil of Namespaces().Get
CheckNamespaceExists(a, namespace) ==
    "namespaces" \notin a.fail /\ namespace \in a.ns

\* CheckCRDExists
CheckCRDExists(a, gvr) ==
    IF "discovery" \in a.fail THEN FALSE
    ELSE \E r \in a.crds :
            /\ r.GroupVersion = gvr.Group \o "/" \o gvr.Version
            /\ r.Name = gvr.Resource

\* CheckPodsInNamespace
CheckPodsInNamespace(a, namespace, labelSelector) ==
    IF "pods" \in a.fail THEN [n |-> 0, err |-> ApiError]
    ELSE [n |-> a.pods, err |-> NoErr]

\* ComponentStatus{}
ComponentStatus(installed, ready, message) ==
    [Installed |-> installed, Ready |-> ready, Version |-> "", Message |-> message]

NotInstalledStatus(message) == ComponentStatus(FALSE, FALSE, message)

\* the first namespace of the list that exists, "" if none does
FirstNamespace(a, namespaces) ==
    LET found == {i \in DOMAIN namespaces : CheckNamespaceExists(a, namespaces[i])}
    IN  IF found = {} THEN ""
        ELSE namespaces[CHOOSE i \in found : \A j \in found : i <= j]

RECURSIVE odfStorageClasses(_)
odfStorageClasses(items) ==
    IF items = <<>> THEN <<>>
    ELSE LET rest == odfStorageClasses(Tail(items))
         IN  IF Head(items).Provisioner \in
                    {"openshift-storage.rbd.csi.ceph.com", "openshift-storage.cephfs.csi.ceph.com",
                     "ocs-storagecluster-ceph-rbd", "ocs-storagecluster-cephfs"}
             THEN <<Head(items).Name>> \o rest
             ELSE rest

\* DataFoundationService.GetStatus
DataFoundationGetStatus(a) ==
    LET foundNamespace == FirstNamespace(a, <<"openshift-storage", "openshift-data-foundation">>)
        pods == CheckPodsInNamespace(a, foundNamespace, "app=odf-operator")
        running == pods.err = NoErr /\ pods.n > 0
    IN  IF foundNamespace = ""
        THEN [data |-> [ComponentStatus |-> NotInstalledStatus("ODF/OCS namespace not found"),
                        Namespace |-> "", StorageClasses |-> <<>>, CephHealth |-> ""],
              err |-> NoErr]
        ELSE [data |->
                 [ComponentStatus |->
                      ComponentStatus(TRUE, running,
                          IF running
                          THEN "ODF operator running with " \o ToString(pods.n) \o " pods"
                          ELSE "ODF operator not found or not ready"),
                  Namespace |-> foundNamespace,
                  StorageClasses |-> IF "lists" \in a.fail THEN <<>>
                                     ELSE odfStorageClasses(a.storageClasses),
                  CephHealth |-> IF CheckCRDExists(a, GVR("ceph.rook.io", "v1", "cephclusters"))
                                 THEN "CRD exists (detailed health check not implemented)"
                                 ELSE ""],
              err |-> NoErr]

\* BackupService.convertJob, without the times
convertJob(job) ==
    [Name |-> job.Name,
     Status |-> IF job.Succeeded > 0 THEN "Completed"
                ELSE IF job.Failed > 0 THEN "Failed"
                ELSE IF job.Active > 0 THEN "Running"
                ELSE "Unknown"]

\* mutant of jobsListError: a failing Jobs().List is returned to the caller
jobsListErrorReturned(err) == err

\* if err != nil { result.Message = ...; return result, nil }
jobsListError(err) == NoErr

\* BackupService.ListJobs
BackupListJobs(a) ==
    IF ~CheckNamespaceExists(a, "openshift-adp")
    THEN [data |-> [ComponentStatus |-> NotInstalledStatus("OADP namespace not found"),
                    Jobs |-> <<>>],
          err |-> NoErr]
    ELSE IF ~CheckCRDExists(a, GVR("velero.io", "v1", "backups"))
    THEN [data |-> [ComponentStatus |-> ComponentStatus(TRUE, FALSE, "Velero CRDs not found"),
                    Jobs |-> <<>>],
          err |-> NoErr]
    ELSE IF "lists" \in a.fail
    THEN [data |-> [ComponentStatus |->
                        ComponentStatus(TRUE, TRUE, "Failed to list jobs: " \o ApiError),
                    Jobs |-> <<>>],
          err |-> jobsListError(ApiError)]
    ELSE [data |-> [ComponentStatus |->
                        ComponentStatus(TRUE, TRUE,
                            "Found " \o ToString(Len(a.jobs)) \o " backup jobs"),
                    Jobs |-> [i \in DOMAIN a.jobs |-> convertJob(a.jobs[i])]],
          err |-> NoErr]

\* GDPService.GetStatus, CatalogService.GetStatus, CASService.GetStatus: the
\* component is found in the first namespace of the list that exists
NamespaceStatus(a, namespaces, foundIn, notFound) ==
    LET ns == FirstNamespace(a, namespaces)
    IN  IF ns # ""
        THEN [data |-> [ComponentStatus |-> ComponentStatus(TRUE, TRUE, foundIn \o ns)],
              err |-> NoErr]
        ELSE [data |-> [ComponentStatus |-> NotInstalledStatus(notFound)], err |-> NoErr]

GDPGetStatus(a) ==
    NamespaceStatus(a, <<"ibm-spectrum-scale", "ibm-gdp">>,
                    "GDP found in namespace: ", "GDP/Spectrum Scale not found")

CatalogGetStatus(a) ==
    NamespaceStatus(a, <<"ibm-data-catalog", "openshift-data-catalog">>,
                    "Data Catalog found in namespace: ", "Data Catalog not found")

CASGetStatus(a) ==
    NamespaceStatus(a, <<"ibm-cas">>, "CAS found in namespace: ",
                    "Content Aware Storage not found")

\* DRService.GetStatus
DRGetStatus(a) ==
    IF \/ CheckCRDExists(a, GVR("ramendr.openshift.io", "v1alpha1", "drpolicies"))
       \/ CheckCRDExists(a, GVR("ramendr.openshift.io", "v1alpha1", "drclusters"))
    THEN [data |-> [ComponentStatus |-> ComponentStatus(TRUE, TRUE, "DR CRDs found (Ramen DR)")],
          err |-> NoErr]
    ELSE [data |-> [ComponentStatus |-> NotInstalledStatus("DR components not found")],
          err |-> NoErr]

\* ServiceabilityService.GetSummary
ServiceabilityGetSummary(a) ==
    LET mustGather == CheckNamespaceExists(a, "openshift-must-gather-operator")
        logging == CheckNamespaceExists(a, "openshift-logging")
        installed == mustGather \/ logging
    IN  [data |-> [ComponentStatus |->
                       IF installed
                       THEN ComponentStatus(TRUE, TRUE, "Serviceability components detected")
                       ELSE NotInstalledStatus("No serviceability components found"),
                   MustGatherAvailable |-> mustGather,
                   LoggingConfigured |-> logging,
                   Namespace |-> IF logging THEN "openshift-logging" ELSE ""],
         err |-> NoErr]

\* ObservabilityService.GetSummary
ObservabilityGetSummary(a) ==
    LET prometheus == CheckNamespaceExists(a, "openshift-monitoring")
        grafana == CheckNamespaceExists(a, "openshift-grafana")
        otel == CheckCRDExists(a, GVR("opentelemetry.io", "v1alpha1", "opentelemetrycollectors"))
        installed == prometheus \/ grafana \/ otel
    IN  [data |-> [ComponentStatus |->
                       IF installed
                       THEN ComponentStatus(TRUE, TRUE, "Observability stack detected")
                       ELSE NotInstalledStatus("No observability components found"),
                   PrometheusInstalled |-> prometheus,
                   GrafanaInstalled |-> grafana,
                   OtelInstalled |-> otel,
                   Namespace |-> IF prometheus THEN "openshift-monitoring" ELSE ""],
         err |-> NoErr]

\* VirtualizationService.GetStatus
VirtualizationGetStatus(a) ==
    LET ns == FirstNamespace(a, <<"openshift-cnv", "kubevirt">>)
        crds == CheckCRDExists(a, GVR("kubevirt.io", "v1", "virtualmachines"))
    IN  IF ns = ""
        THEN [data |-> [ComponentStatus |->
                            NotInstalledStatus("KubeVirt/OpenShift Virtualization not found"),
                        KubeVirtInstalled |-> FALSE, VMCount |-> 0, Namespace |-> ""],
              err |-> NoErr]
        ELSE [data |-> [ComponentStatus |->
                            IF crds
                            THEN ComponentStatus(TRUE, TRUE, "KubeVirt installed with VM CRDs")
                            ELSE ComponentStatus(TRUE, FALSE,
                                     "KubeVirt namespace found but CRDs not detected"),
                        KubeVirtInstalled |-> TRUE, VMCount |-> 0, Namespace |-> ns],
              err |-> NoErr]

\* HCPService.GetStatus
HCPGetStatus(a) ==
    LET crds == CheckCRDExists(a, GVR("hypershift.openshift.io", "v1beta1", "hostedclusters"))
    IN  IF ~CheckNamespaceExists(a, "hypershift")
        THEN [data |-> [ComponentStatus |-> NotInstalledStatus("HyperShift/HCP not found"),
                        HyperShiftInstalled |-> FALSE, HostedClusterCount |-> 0,
                        Namespace |-> ""],
              err |-> NoErr]
        ELSE [data |-> [ComponentStatus |->
                            IF crds
                            THEN ComponentStatus(TRUE, TRUE,
                                     "HyperShift installed with HostedCluster CRDs")
                            ELSE ComponentStatus(TRUE, FALSE,
                                     "HyperShift namespace found but CRDs not detected"),
                        HyperShiftInstalled |-> TRUE, HostedClusterCount |-> 0,
                        Namespace |-> "hypershift"],
              err |-> NoErr]

StatusOperations ==
    {"DataFoundationService.GetStatus", "BackupService.ListJobs", "GDPService.GetStatus",
     "DRService.GetStatus", "CatalogService.GetStatus", "CASService.GetStatus",
     "ServiceabilityService.GetSummary", "ObservabilityService.GetSummary",
     "VirtualizationService.GetStatus", "HCPService.GetStatus"}

\* the operation closure a tool handler passes to ExecuteOnClusters
StatusOperation(op, a) ==
    CASE op = "DataFoundationService.GetStatus" -> DataFoundationGetStatus(a)
      [] op = "BackupService.ListJobs" -> BackupListJobs(a)
      [] op = "GDPService.GetStatus" -> GDPGetStatus(a)
      [] op = "DRService.GetStatus" -> DRGetStatus(a)
      [] op = "CatalogService.GetStatus" -> CatalogGetStatus(a)
      [] op = "CASService.GetStatus" -> CASGetStatus(a)
      [] op = "ServiceabilityService.GetSummary" -> ServiceabilityGetSummary(a)
      [] op = "ObservabilityService.GetSummary" -> ObservabilityGetSummary(a)
      [] op = "VirtualizationService.GetStatus" -> VirtualizationGetStatus(a)
      [] op = "HCPService.GetStatus" -> HCPGetStatus(a)

\* what the worker of ExecuteOnClusters sends for a status operation: the
\* status structs hold booleans, strings, numbers and lists of those, which
\* json.Marshal always encodes, and Data is kept as the struct
StatusResult(name, ret) ==
    IF ret.err # NoErr THEN FailedResult(name, ret.err)
    ELSE [Cluster |-> name, Success |-> TRUE, Error |-> "", Data |-> ret.data]

NoStatus == [op |-> "none"]

InitStatus ==
    /\ ResolveIdle
    /\ DispatchIdle
    /\ result = NewResult(ZeroTarget)
    /\ last = <<>> /\ lastCall = <<>> /\ returned = <<>> /\ mu = <<>> /\ at = <<>>
    /\ InitIdle
    /\ ExecIdle
    /\ GlobalIdle
    /\ api \in ApiAnswers
    /\ status = NoStatus

\* a worker of ExecuteOnClusters runs a status operation on a registered
\* cluster "a" and sends what it recorded
RunStatusOperation(op) ==
    /\ LET ret == StatusOperation(op, api)
       IN  status' = [op |-> op, data |-> ret.data, err |-> ret.err,
                      recorded |-> StatusResult("a", ret)]
    /\ UNCHANGED <<resolveVars, dispatchVars, result, last, lastCall, returned, mu, at, initVars,
                   execVars, globalVars, api>>

NextStatus == \E op \in StatusOperations : RunStatusOperation(op)

SpecStatus == InitStatus /\ [][NextStatus]_vars

\* every call to the API server fails
Unreachable == api.fail = ApiCallKinds

\* C30: every status operation returns a nil error whatever the API server
\* answers and whichever of its calls fail, so the dispatcher records
\* success = true for it; and for a cluster on which every call fails the
\* recorded payload says not installed and not ready.
C30_StatusNeverFails ==
    status # NoStatus =>
        /\ status.err = NoErr
        /\ status.recorded.Success
        /\ Unreachable =>
               /\ ~status.recorded.Data.ComponentStatus.Installed
               /\ ~status.recorded.Data.ComponentStatus.Ready

\* ListJobs got as far as listing the jobs and the list call failed
C30_Witness ==
    /\ status # NoStatus
    /\ status.op = "BackupService.ListJobs"
    /\ "lists" \in api.fail
    /\ status.recorded.Success
    /\ HasPrefix(status.recorded.Data.ComponentStatus.Message, "Failed to list jobs")

====
